---- MODULE Spec2Model ----
(***************************************************************************)
(* A model of the fal client library (neocafe/fal):                        *)
(*                                                                         *)
(*   - fal/auth/__init__.py : the token store refresh path                 *)
(*     (_fetch_access_token), login and logout, run by several callers     *)
(*     against one token store and one identity provider;                  *)
(*   - fal/auth/__init__.py : key_credentials, get_colab_token and         *)
(*     UserAccess;                                                         *)
(*   - fal/apps.py : RequestHandle (status, cancel, iter_events,           *)
(*     fetch_result, get), submit/run, the app_id canonicalization, and    *)
(*     the duplex _WSConnection (recv, stream).                            *)
(*                                                                         *)
(* Several specifications share the module: SpecTokens, SpecQueue, SpecWS, *)
(* SpecKeys, SpecApp, SpecHttp, SpecColab, SpecDuplex and SpecAccess.      *)
(* Each one moves its own variables and keeps the others fixed.            *)
(***************************************************************************)
EXTENDS Integers, Sequences, FiniteSets, TLC

VARIABLES
    \* ---- token store, lock and identity provider (fal/auth) ----
    store,      \* the persisted pair [refresh, access]; NoToken = absent
    lock,       \* holder of local.lock_token(), NoProc when free
    pc,         \* per caller: position in its current operation
    op,         \* per caller: "get" | "login" | "logout" | "none"
    loc,        \* per caller: locals [rt, at, td, err]
    ret,        \* per caller: outcome of the finished call [ok, val, err]
    call,       \* per caller: what this call did and saw
                \*   [exch, save, del, waited, clock, afterFail, raised]
    idp,        \* identity provider [next, live, exchanged, revoked]
    expired,    \* access tokens whose expiration claim is in the past
    hist,       \* run history
                \*   [init, login, logout, netFail, exch, issued, reuse, failed, calls]
    \* ---- request handle (fal/apps.py) ----
    qpc,        \* position inside run() / get() / a consumer of iter_events()
    qtrace,     \* events so far: submit, polls (with the status), yields,
                \*   sleeps, result requests
    qlast,      \* last status response and what status() made of it
    qout,       \* how the call ended [state, val, err]
    qsrv,       \* the call and its server [entry, payload]
    \* ---- duplex connection (fal/apps.py) ----
    wbuf,       \* _WSConnection._buffer: <<>> when None, <<frame>> otherwise
    wsock,      \* frames read from the socket so far, in arrival order
    wpc,        \* position inside recv()
    wloc,       \* recv() locals [request_id, response, from]
    wret,       \* the finished recv() calls in call order: [ok, val, err, from, to],
                \*   from..to the places in wsock of the frames the call examined
    \* ---- key resolution (fal/auth) ----
    kenv,       \* what key_credentials can see: the environment variables, the
                \*   configured key and the notebook secret
    kres,       \* the outcome of key_credentials()
    \* ---- submit and the request handle's HTTP requests (fal/apps.py) ----
    ainput,     \* what the caller passes: [app_id, path, creds, entry, calls]
    handle,     \* the RequestHandle: [state, app_id, request_id, creds]
    http,       \* the HTTP requests issued so far: [method, url, creds, code, call]
    acalls,     \* the finished calls in call order: [op, ok, err]
    \* ---- the notebook secret (fal/auth) ----
    cenv,       \* the process: [in_colab, importable]
    colab,      \* _colab_state: [is_checked, secret, lock]
    cpc,        \* per caller: position inside get_colab_token
    cret,       \* the finished calls in return order: [proc, val, queries]
    chist,      \* [calls, queries, outcome]: calls started, lookups made and
                \*   what the lookup gave
    \* ---- the duplex connection's stream() (fal/apps.py) ----
    wyield,     \* the frames stream() yielded, in order: [call, at, frame, read],
                \*   at the frame's place in wsock, read the frames read so far
    wstreams,   \* the places in wret of the stream() calls
    \* ---- UserAccess (fal/auth) ----
    user_access, \* the instance: [access_token, exc], NoToken / "none" for None
    upc,        \* the property being read while _fetch_access_token runs,
                \*   "idle" otherwise
    uhist       \* [fetches, reads]: the instance's calls of _fetch_access_token
                \*   and its finished reads in order: [via, ok, val, err, fetched]

tokenVars == <<store, lock, pc, op, loc, ret, call, idp, expired, hist>>
queueVars == <<qpc, qtrace, qlast, qout, qsrv>>
wsVars    == <<wbuf, wsock, wpc, wloc, wret>>
keyVars   == <<kenv, kres>>
appVars   == <<ainput, handle, http, acalls>>
colabVars == <<cenv, colab, cpc, cret, chist>>
streamVars == <<wyield, wstreams>>
accessVars == <<user_access, upc, uhist>>
vars      == <<tokenVars, queueVars, wsVars, keyVars, appVars, colabVars, streamVars,
               accessVars>>

(***************************************************************************)
(* Bounds of the model.                                                    *)
(***************************************************************************)
NumProcs  == 2     \* concurrent callers of the auth functions
MaxCalls  == 3     \* operations started in one run
MaxTokens == 3     \* token ids the identity provider can issue
MaxPolls  == 4     \* status polls of one request handle
MaxFrames == 6     \* frames the duplex socket delivers
MaxRecvs  == 3     \* recv() calls on one duplex connection
MaxKeyLen == 3     \* characters of a key text
MaxIdLen  == 3     \* characters of a free-form app_id
MaxParts  == 4     \* path components of a well-formed app_id
MaxAppCalls == 3   \* calls on one request handle
MaxColabCalls == 3 \* calls of get_colab_token in one process
MaxStreamFrames == 4 \* frames the socket delivers when stream() is in use
MaxReads  == 3     \* reads of access_token / bearer_token on one UserAccess

Procs   == 1..NumProcs
NoProc  == 0
NoToken == 0

(***************************************************************************)
(* fal.auth.local and fal.auth.auth0: the token file, its lock and the     *)
(* identity provider, as the callers in fal/auth/__init__.py use them.     *)
(***************************************************************************)
NoPair == [refresh |-> NoToken, access |-> NoToken]

\* local.load_token(): the stored (refresh_token, access_token)
load_token == store

\* local.save_token(refresh_token, access_token = absent): overwrites the pair
save_token(refresh_token, access_token) ==
    [refresh |-> refresh_token, access |-> access_token]

\* local.delete_token(): no pair is left
delete_token == NoPair

\* auth0.verify_access_token_expiration(token): TRUE when it does not raise
verify_access_token_expiration(token) == token \notin expired

\* the token_data of a successful auth0.refresh / auth0.login
token_data(r, a) == [refresh_token |-> r, access_token |-> a]
NoData == token_data(NoToken, NoToken)

\* auth0.refresh(refresh_token) can succeed: the provider still accepts the
\* token (rotation: an exchanged or revoked token is refused)
refresh_accepts(refresh_token) ==
    refresh_token \in idp.live /\ idp.next <= MaxTokens

\* the provider's state after it rotated refresh_token into a new pair
idp_rotate(refresh_token) ==
    [idp EXCEPT !.next = @ + 1,
                !.live = (@ \ {refresh_token}) \cup {idp.next},
                !.exchanged = @ \cup {refresh_token}]

\* the provider's state after auth0.revoke(refresh_token)
idp_revoke(refresh_token) ==
    [idp EXCEPT !.live = @ \ {refresh_token},
                !.revoked = @ \cup {refresh_token}]

\* the provider's state after auth0.login issued a new refresh token
idp_login == [idp EXCEPT !.next = @ + 1, !.live = @ \cup {idp.next}]

(***************************************************************************)
(* Outcomes of a call and the per-call bookkeeping.                        *)
(***************************************************************************)
Ok(v)   == [ok |-> TRUE, val |-> v, err |-> "none"]
Err(e)  == [ok |-> FALSE, val |-> NoToken, err |-> e]
Pending == Err("pending")

NoLocals == [rt |-> NoToken, at |-> NoToken, td |-> NoData,
             err |-> "none", ret |-> NoToken]
NoCall   == [exch |-> 0, save |-> 0, del |-> 0, waited |-> FALSE,
             clock |-> {}, afterFail |-> FALSE, raised |-> "none"]

FirstStep(o) == CASE o = "get"    -> "f_acquire"
                  [] o = "login"  -> "li_auth0"
                  [] o = "logout" -> "lo_load"

AuthOps == {"get", "login", "logout"}

\* every token-side variable but the ones an action names is left alone
QueueIdle == UNCHANGED queueVars
WsIdle    == UNCHANGED wsVars
KeysIdle  == UNCHANGED keyVars
AppIdle   == UNCHANGED appVars
ColabIdle == UNCHANGED colabVars
StreamIdle == UNCHANGED streamVars
AccessIdle == UNCHANGED accessVars
Elsewhere == KeysIdle /\ AppIdle /\ ColabIdle /\ StreamIdle /\ AccessIdle
Others    == QueueIdle /\ WsIdle /\ Elsewhere

\* key_credentials is not being called
KeysRest ==
    /\ kenv = [state |-> "off"]
    /\ kres = [state |-> "off"]
\* no submit and no request handle
AppRest ==
    /\ ainput = [state |-> "off"]
    /\ handle = [state |-> "off"]
    /\ http = <<>>
    /\ acalls = <<>>
\* get_colab_token is not being called
ColabRest ==
    /\ cenv = [state |-> "off"]
    /\ colab = [state |-> "off"]
    /\ cpc = [p \in Procs |-> "off"]
    /\ cret = <<>>
    /\ chist = [state |-> "off"]
\* stream() has not been called
StreamRest ==
    /\ wyield = <<>>
    /\ wstreams = {}
AccessRest ==
    /\ user_access = [access_token |-> NoToken, exc |-> "none"]
    /\ upc = "idle"
    /\ uhist = [fetches |-> 0, reads |-> <<>>]
ElsewhereRest == KeysRest /\ AppRest /\ ColabRest /\ StreamRest /\ AccessRest

(***************************************************************************)
(* A caller starts get_access_token, login or logout.                      *)
(***************************************************************************)
StartCall(p, o) ==
    /\ pc[p] \in {"idle", "done"}
    /\ hist.calls < MaxCalls
    /\ op' = [op EXCEPT ![p] = o]
    /\ pc' = [pc EXCEPT ![p] = FirstStep(o)]
    /\ loc' = [loc EXCEPT ![p] = NoLocals]
    /\ ret' = [ret EXCEPT ![p] = Pending]
    /\ call' = [call EXCEPT ![p] = NoCall]
    /\ hist' = [hist EXCEPT !.calls = @ + 1,
                            !.login = @ \/ o = "login",
                            !.logout = @ \/ o = "logout"]
    /\ UNCHANGED <<store, lock, idp, expired>>
    /\ Others

\* a get_access_token caller finds the lock held by another caller and
\* blocks on it (recorded for the call; the waiting itself is the guard of
\* fetch_acquire)
LockBlocked(p) ==
    /\ pc[p] = "f_acquire"
    /\ lock \notin {NoProc, p}
    /\ ~call[p].waited
    /\ call' = [call EXCEPT ![p].waited = TRUE]
    /\ UNCHANGED <<store, lock, pc, op, loc, ret, idp, expired, hist>>
    /\ Others

\* time passes: the stored access token's expiration moves into the past
Expire ==
    /\ store.access # NoToken
    /\ store.access \notin expired
    /\ expired' = expired \cup {store.access}
    /\ UNCHANGED <<store, lock, pc, op, loc, ret, call, idp, hist>>
    /\ Others

(***************************************************************************)
(* _fetch_access_token, fal/auth/__init__.py lines 74-105.                 *)
(***************************************************************************)
\* faulty variant: the with block is entered without waiting for the lock
fetch_acquire_unlocked(p) ==
    /\ pc[p] = "f_acquire"
    /\ lock' = p
    /\ pc' = [pc EXCEPT ![p] = "f_load"]
    /\ UNCHANGED <<store, op, loc, ret, call, idp, expired, hist>>
    /\ Others

\* line 81: with local.lock_token()
fetch_acquire(p) ==
    /\ pc[p] = "f_acquire"
    /\ lock = NoProc
    /\ lock' = p
    /\ pc' = [pc EXCEPT ![p] = "f_load"]
    /\ UNCHANGED <<store, op, loc, ret, call, idp, expired, hist>>
    /\ Others

\* faulty variant: the missing refresh_token is not checked
fetch_load_unchecked(p) ==
    /\ pc[p] = "f_load"
    /\ loc' = [loc EXCEPT ![p].rt = load_token.refresh,
                          ![p].at = load_token.access]
    /\ pc' = [pc EXCEPT ![p] = IF load_token.access # NoToken
                               THEN "f_verify" ELSE "f_refresh"]
    /\ call' = [call EXCEPT ![p].afterFail = hist.failed]
    /\ UNCHANGED <<store, lock, op, ret, idp, expired, hist>>
    /\ Others

\* lines 82-87: load the pair; no refresh_token raises Unauthenticated
fetch_load(p) ==
    /\ pc[p] = "f_load"
    /\ LET refresh_token == load_token.refresh
           access_token  == load_token.access
       IN /\ loc' = [loc EXCEPT ![p].rt = refresh_token,
                                ![p].at = access_token,
                                ![p].err = IF refresh_token = NoToken
                                           THEN "Unauthenticated" ELSE "none"]
          /\ pc' = [pc EXCEPT ![p] =
                      IF refresh_token = NoToken THEN "f_return"
                      ELSE IF access_token # NoToken THEN "f_verify"
                      ELSE "f_refresh"]
    /\ call' = [call EXCEPT ![p].afterFail = hist.failed]
    /\ UNCHANGED <<store, lock, op, ret, idp, expired, hist>>
    /\ Others

\* faulty variant: the stored access token is never returned: always refresh
fetch_verify_always_refresh(p) ==
    /\ pc[p] = "f_verify"
    /\ call' = [call EXCEPT ![p].clock = expired]
    /\ pc' = [pc EXCEPT ![p] = "f_refresh"]
    /\ UNCHANGED <<store, lock, op, loc, ret, idp, expired, hist>>
    /\ Others

\* lines 88-93: a token that is not expired is returned, else fall through
fetch_verify(p) ==
    /\ pc[p] = "f_verify"
    /\ call' = [call EXCEPT ![p].clock = expired]
    /\ IF verify_access_token_expiration(loc[p].at)
       THEN /\ loc' = [loc EXCEPT ![p].ret = loc[p].at]
            /\ pc' = [pc EXCEPT ![p] = "f_return"]
       ELSE /\ pc' = [pc EXCEPT ![p] = "f_refresh"]
            /\ UNCHANGED loc
    /\ UNCHANGED <<store, lock, op, ret, idp, expired, hist>>
    /\ Others

\* line 96: token_data = auth0.refresh(refresh_token), which may raise
fetch_refresh(p) ==
    /\ pc[p] = "f_refresh"
    /\ \/ /\ refresh_accepts(loc[p].rt)
          /\ call' = [call EXCEPT ![p].exch = @ + 1]
          /\ idp' = idp_rotate(loc[p].rt)
          /\ loc' = [loc EXCEPT ![p].td = token_data(idp.next, idp.next)]
          /\ pc' = [pc EXCEPT ![p] = "f_save"]
          /\ hist' = [hist EXCEPT !.exch = @ + 1,
                                  !.issued = token_data(idp.next, idp.next),
                                  !.reuse = @ \/ loc[p].rt \in idp.exchanged]
       \/ /\ LET e == IF loc[p].rt \in idp.live THEN "NetworkError"
                       ELSE "InvalidGrant"
             IN /\ loc' = [loc EXCEPT ![p].err = e]
                /\ call' = [call EXCEPT ![p].exch = @ + 1, ![p].raised = e]
          /\ pc' = [pc EXCEPT ![p] = "f_delete"]
          /\ hist' = [hist EXCEPT !.exch = @ + 1,
                                  !.netFail = @ \/ loc[p].rt \in idp.live,
                                  !.reuse = @ \/ loc[p].rt \in idp.exchanged]
          /\ UNCHANGED idp
    /\ UNCHANGED <<store, lock, op, ret, expired>>
    /\ Others

\* lines 100 and 105: save the rotated pair, return the new access_token
fetch_save(p) ==
    /\ pc[p] = "f_save"
    /\ store' = save_token(loc[p].td.refresh_token, loc[p].td.access_token)
    /\ loc' = [loc EXCEPT ![p].ret = loc[p].td.access_token]
    /\ call' = [call EXCEPT ![p].save = @ + 1]
    /\ pc' = [pc EXCEPT ![p] = "f_return"]
    /\ UNCHANGED <<lock, op, ret, idp, expired, hist>>
    /\ Others

\* faulty variant: the failure is re-raised without deleting the stored pair
fetch_delete_keeps_pair(p) ==
    /\ pc[p] = "f_delete"
    /\ hist' = [hist EXCEPT !.failed = TRUE]
    /\ pc' = [pc EXCEPT ![p] = "f_return"]
    /\ UNCHANGED <<store, lock, op, loc, ret, call, idp, expired>>
    /\ Others

\* lines 101-103: except: local.delete_token(); raise
fetch_delete(p) ==
    /\ pc[p] = "f_delete"
    /\ store' = delete_token
    /\ call' = [call EXCEPT ![p].del = @ + 1]
    /\ hist' = [hist EXCEPT !.failed = TRUE]
    /\ pc' = [pc EXCEPT ![p] = "f_return"]
    /\ UNCHANGED <<lock, op, loc, ret, idp, expired>>
    /\ Others

\* faulty variant: the lock is released on a return only, not when the block
\* is left by an exception
fetch_return_keeps_lock_on_raise(p) ==
    /\ pc[p] = "f_return"
    /\ lock' = IF loc[p].err = "none" THEN NoProc ELSE lock
    /\ ret' = [ret EXCEPT ![p] = IF loc[p].err = "none"
                                 THEN Ok(loc[p].ret) ELSE Err(loc[p].err)]
    /\ pc' = [pc EXCEPT ![p] = "done"]
    /\ UNCHANGED <<store, op, loc, call, idp, expired, hist>>
    /\ Others

\* leaving the with block: the lock is released and the caller gets the
\* returned token or the raised exception
fetch_return(p) ==
    /\ pc[p] = "f_return"
    /\ lock' = NoProc
    /\ ret' = [ret EXCEPT ![p] = IF loc[p].err = "none"
                                 THEN Ok(loc[p].ret) ELSE Err(loc[p].err)]
    /\ pc' = [pc EXCEPT ![p] = "done"]
    /\ UNCHANGED <<store, op, loc, call, idp, expired, hist>>
    /\ Others

(***************************************************************************)
(* login, fal/auth/__init__.py lines 128-131.                              *)
(***************************************************************************)
\* line 129: token_data = auth0.login(console), outside the lock; it may raise
login_auth0(p) ==
    /\ pc[p] = "li_auth0"
    /\ \/ /\ idp.next <= MaxTokens
          /\ idp' = idp_login
          /\ loc' = [loc EXCEPT ![p].td = token_data(idp.next, NoToken)]
          /\ pc' = [pc EXCEPT ![p] = "li_acquire"]
          /\ UNCHANGED ret
       \/ /\ ret' = [ret EXCEPT ![p] = Err("LoginFailed")]
          /\ pc' = [pc EXCEPT ![p] = "done"]
          /\ UNCHANGED <<idp, loc>>
    /\ UNCHANGED <<store, lock, op, call, expired, hist>>
    /\ Others

\* line 130: with local.lock_token()
login_acquire(p) ==
    /\ pc[p] = "li_acquire"
    /\ lock = NoProc
    /\ lock' = p
    /\ pc' = [pc EXCEPT ![p] = "li_save"]
    /\ UNCHANGED <<store, op, loc, ret, call, idp, expired, hist>>
    /\ Others

\* line 131: local.save_token(token_data["refresh_token"])
login_save(p) ==
    /\ pc[p] = "li_save"
    /\ store' = save_token(loc[p].td.refresh_token, NoToken)
    /\ call' = [call EXCEPT ![p].save = @ + 1]
    /\ hist' = [hist EXCEPT !.failed = FALSE]
    /\ pc' = [pc EXCEPT ![p] = "li_release"]
    /\ UNCHANGED <<lock, op, loc, ret, idp, expired>>
    /\ Others

\* leaving the with block of line 130
login_release(p) ==
    /\ pc[p] = "li_release"
    /\ lock' = NoProc
    /\ ret' = [ret EXCEPT ![p] = Ok(NoToken)]
    /\ pc' = [pc EXCEPT ![p] = "done"]
    /\ UNCHANGED <<store, op, loc, call, idp, expired, hist>>
    /\ Others

(***************************************************************************)
(* logout, fal/auth/__init__.py lines 134-140.                             *)
(***************************************************************************)
\* lines 135-137: the pair is loaded without the lock
logout_load(p) ==
    /\ pc[p] = "lo_load"
    /\ LET refresh_token == load_token.refresh
       IN IF refresh_token = NoToken
          THEN /\ ret' = [ret EXCEPT ![p] = Err("NotLoggedIn")]
               /\ pc' = [pc EXCEPT ![p] = "done"]
               /\ UNCHANGED loc
          ELSE /\ loc' = [loc EXCEPT ![p].rt = refresh_token]
               /\ pc' = [pc EXCEPT ![p] = "lo_revoke"]
               /\ UNCHANGED ret
    /\ UNCHANGED <<store, lock, op, call, idp, expired, hist>>
    /\ Others

\* line 138: auth0.revoke(refresh_token, console)
logout_revoke(p) ==
    /\ pc[p] = "lo_revoke"
    /\ idp' = idp_revoke(loc[p].rt)
    /\ hist' = [hist EXCEPT !.reuse = @ \/ loc[p].rt \in idp.exchanged]
    /\ pc' = [pc EXCEPT ![p] = "lo_acquire"]
    /\ UNCHANGED <<store, lock, op, loc, ret, call, expired>>
    /\ Others

\* line 139: with local.lock_token()
logout_acquire(p) ==
    /\ pc[p] = "lo_acquire"
    /\ lock = NoProc
    /\ lock' = p
    /\ pc' = [pc EXCEPT ![p] = "lo_delete"]
    /\ UNCHANGED <<store, op, loc, ret, call, idp, expired, hist>>
    /\ Others

\* line 140: local.delete_token()
logout_delete(p) ==
    /\ pc[p] = "lo_delete"
    /\ store' = delete_token
    /\ call' = [call EXCEPT ![p].del = @ + 1]
    /\ pc' = [pc EXCEPT ![p] = "lo_release"]
    /\ UNCHANGED <<lock, op, loc, ret, idp, expired, hist>>
    /\ Others

\* leaving the with block of line 139
logout_release(p) ==
    /\ pc[p] = "lo_release"
    /\ lock' = NoProc
    /\ ret' = [ret EXCEPT ![p] = Ok(NoToken)]
    /\ pc' = [pc EXCEPT ![p] = "done"]
    /\ UNCHANGED <<store, op, loc, call, idp, expired, hist>>
    /\ Others

(***************************************************************************)
(* The token store specification.                                          *)
(***************************************************************************)
\* the other two components at rest
QueueRest ==
    /\ qpc = "off"
    /\ qtrace = <<>>
    /\ qlast = "none"
    /\ qout = "none"
    /\ qsrv = "none"

WsRest ==
    /\ wbuf = <<>>
    /\ wsock = <<>>
    /\ wpc = "off"
    /\ wloc = [request_id |-> 0, response |-> <<>>, from |-> 0]
    /\ wret = <<>>

\* the stored pair a run starts from: logged out, logged in without an
\* access token, or with one that is still valid or already expired; the
\* provider may or may not still accept the stored refresh token
InitTokens ==
    /\ store \in [refresh : {NoToken, 1}, access : {NoToken, 1}]
    /\ expired \in SUBSET {1}
    /\ (store.access = NoToken => expired = {})
    /\ lock = NoProc
    /\ pc = [p \in Procs |-> "idle"]
    /\ op = [p \in Procs |-> "none"]
    /\ loc = [p \in Procs |-> NoLocals]
    /\ ret = [p \in Procs |-> Pending]
    /\ call = [p \in Procs |-> NoCall]
    /\ \E live \in SUBSET ({store.refresh} \ {NoToken}) :
          idp = [next |-> 2, live |-> live, exchanged |-> {}, revoked |-> {}]
    /\ hist = [init |-> [store |-> store, expired |-> expired, live |-> idp.live],
               login |-> FALSE, logout |-> FALSE, netFail |-> FALSE,
               exch |-> 0, issued |-> NoData, reuse |-> FALSE,
               failed |-> FALSE, calls |-> 0]
    /\ QueueRest
    /\ WsRest
    /\ ElsewhereRest

NextTokens ==
    \/ \E p \in Procs, o \in AuthOps : StartCall(p, o)
    \/ \E p \in Procs : LockBlocked(p)
    \/ Expire
    \/ \E p \in Procs : fetch_acquire(p)
    \/ \E p \in Procs : fetch_load(p)
    \/ \E p \in Procs : fetch_verify(p)
    \/ \E p \in Procs : fetch_refresh(p)
    \/ \E p \in Procs : fetch_save(p)
    \/ \E p \in Procs : fetch_delete(p)
    \/ \E p \in Procs : fetch_return(p)
    \/ \E p \in Procs : login_auth0(p)
    \/ \E p \in Procs : login_acquire(p)
    \/ \E p \in Procs : login_save(p)
    \/ \E p \in Procs : login_release(p)
    \/ \E p \in Procs : logout_load(p)
    \/ \E p \in Procs : logout_revoke(p)
    \/ \E p \in Procs : logout_acquire(p)
    \/ \E p \in Procs : logout_delete(p)
    \/ \E p \in Procs : logout_release(p)

SpecTokens == InitTokens /\ [][NextTokens]_vars

(***************************************************************************)
(* Claims about the token store (checked under SpecTokens).                *)
(***************************************************************************)
Finished(p, o) == pc[p] = "done" /\ op[p] = o

\* the pair an exchange returned, as the store keeps it
IssuedPair == [refresh |-> hist.issued.refresh_token,
               access  |-> hist.issued.access_token]

\* The run so far is the refresh scenario: it started from a stored refresh
\* token the provider accepts and an expired access token, only
\* get_access_token was called, the provider was reachable at every exchange,
\* and no further token has expired since the start (the access token the
\* exchange issued is still valid).
RefreshScenario ==
    /\ hist.init.store.refresh # NoToken
    /\ hist.init.store.access # NoToken
    /\ hist.init.store.access \in hist.init.expired
    /\ ~hist.login
    /\ ~hist.logout
    /\ hist.init.store.refresh \in hist.init.live
    /\ ~hist.netFail
    /\ expired = hist.init.expired

\* C1: concurrent get_access_token callers on a store with a refresh token
\* and an expired access token, the exchange succeeding: in every
\* interleaving at most one exchange is made, and once a caller has returned
\* exactly one was made, the rotated pair is what the store holds, and every
\* caller that has returned (blocked on the lock or not) got the new
\* access token.
C1_SingleRefresh ==
    RefreshScenario =>
        /\ hist.exch <= 1
        /\ \A p \in Procs :
              Finished(p, "get") =>
                  /\ hist.exch = 1
                  /\ hist.issued # NoData
                  /\ store = IssuedPair
                  /\ ret[p] = Ok(hist.issued.access_token)

\* every caller has returned, one of them after blocking on the lock
\* without exchanging anything itself
C1_Witness ==
    /\ RefreshScenario
    /\ \A p \in Procs : Finished(p, "get")
    /\ hist.exch = 1
    /\ \E p \in Procs : call[p].waited /\ call[p].exch = 0
    /\ \E p \in Procs : call[p].exch = 1

\* C2: when get_access_token returns after its exchange failed, the store
\* holds no pair at all and the caller receives the exchange's own failure.
C2_FailedExchangeClears ==
    [][\A p \in Procs :
          (pc[p] = "f_return" /\ pc'[p] = "done" /\ call[p].raised # "none")
              => /\ store' = NoPair
                 /\ ret'[p] = Err(call[p].raised)]_vars

C2_Witness ==
    \E p \in Procs :
        /\ Finished(p, "get")
        /\ call[p].raised = "NetworkError"
        /\ call[p].del = 1
        /\ ret[p] = Err("NetworkError")
        /\ hist.init.store.refresh # NoToken
        /\ store = NoPair

\* C8: a refresh token that has been exchanged is never passed to the
\* identity provider again (exchange or revoke), and whenever the lock is
\* free the store does not hold an exchanged refresh token.
C8_NoReuse ==
    /\ ~hist.reuse
    /\ (lock = NoProc => store.refresh \notin idp.exchanged)

\* C9: a get_access_token call that loaded a refresh token and an access
\* token that was not expired when it was verified returns that access
\* token, makes no exchange, and neither saves nor deletes the pair.
C9_Loaded(p) ==
    /\ op[p] = "get"
    /\ loc[p].rt # NoToken
    /\ loc[p].at # NoToken
    /\ loc[p].at \notin call[p].clock

C9_ValidTokenReturned ==
    \A p \in Procs :
        /\ (pc[p] = "f_return" /\ C9_Loaded(p)) =>
               store = [refresh |-> loc[p].rt, access |-> loc[p].at]
        /\ (pc[p] \in {"f_return", "done"} /\ C9_Loaded(p)) =>
               /\ call[p].exch = 0
               /\ call[p].save = 0
               /\ call[p].del = 0
        /\ (pc[p] = "done" /\ C9_Loaded(p)) => ret[p] = Ok(loc[p].at)

C9_Witness ==
    \E p \in Procs :
        /\ pc[p] = "done"
        /\ C9_Loaded(p)
        /\ ret[p] = Ok(1)
        /\ hist.exch = 0

\* C10: a get_access_token call that loaded no refresh token fails with
\* Unauthenticated whatever access token it loaded, makes no exchange and
\* leaves the store alone; so does every call that loads the pair after a
\* failed exchange with no login saved since.
C10_NoRefresh(p) ==
    /\ op[p] = "get"
    /\ pc[p] \in {"f_return", "done"}
    /\ loc[p].rt = NoToken \/ call[p].afterFail

C10_Unauthenticated ==
    \A p \in Procs :
        C10_NoRefresh(p) =>
            /\ call[p].exch = 0
            /\ call[p].save = 0
            /\ call[p].del = 0
            /\ loc[p].rt = NoToken
            /\ pc[p] = "f_return" =>
                   /\ loc[p].err = "Unauthenticated"
                   /\ store = [refresh |-> NoToken, access |-> loc[p].at]
            /\ pc[p] = "done" => ret[p] = Err("Unauthenticated")

\* a call made after another call's exchange failed
C10_Witness ==
    \E p \in Procs :
        /\ Finished(p, "get")
        /\ call[p].afterFail
        /\ hist.exch = 1
        /\ ret[p] = Err("Unauthenticated")

(***************************************************************************)
(* RequestHandle, submit and run: fal/apps.py lines 65-234.                *)
(*                                                                         *)
(* An HTTP response is [code, ctype, body]; a JSON object is a function    *)
(* from its keys to its values, so a key the body lacks is a KeyError.     *)
(* ctype is the Content-Type header, "absent" when the response has none.  *)
(***************************************************************************)
Logs      == {"null", "[log]"}             \* values of a body's "logs"
Positions == {0, 3}                        \* values of "queue_position"
Statuses  == {"IN_QUEUE", "IN_PROGRESS", "COMPLETED", "BOGUS"}
Payloads  == {[images |-> "a"], [images |-> "b", seed |-> "s"]}

EmptyBody == [k \in {} |-> "null"]

\* the bodies a status endpoint may send
StatusBodies ==
    {EmptyBody}
    \cup {[logs |-> l] : l \in Logs}
    \cup {[status |-> st] : st \in Statuses}
    \cup {[status |-> st, logs |-> l] : st \in Statuses, l \in Logs}
    \cup {[status |-> st, queue_position |-> n] : st \in Statuses, n \in Positions}

StatusCodes == {200, 201, 202, 401, 500}

StatusResponses ==
    {[code |-> c, ctype |-> "application/json", body |-> b] :
        c \in StatusCodes, b \in StatusBodies}

\* the responses of the result endpoint of a server whose payload is pl
ResultResponses(pl) ==
    {[code |-> 200, ctype |-> "application/json", body |-> pl]}
    \cup {[code |-> c, ctype |-> t, body |-> [detail |-> "err"]] :
            c \in {401, 422, 500}, t \in {"application/json", "text/html", "absent"}}

\* httpx Response.raise_for_status raises unless the code is a success code
is_success(code) == code >= 200 /\ code <= 299

Raised(e) == [kind |-> "error", err |-> e]
Queued(position) == [kind |-> "Queued", position |-> position]
InProgress(logs) == [kind |-> "InProgress", logs |-> logs]
Completed(logs) == [kind |-> "Completed", logs |-> logs]
IsStatus(o) == o.kind \in {"Queued", "InProgress", "Completed"}

\* faulty variant: the body's status field is looked at before the HTTP code
status_by_body(response) ==
    LET data == response.body
    IN IF ~is_success(response.code) THEN Raised("HTTPStatusError")
       ELSE IF "status" \in DOMAIN data /\ data["status"] = "IN_QUEUE"
         THEN IF "queue_position" \in DOMAIN data
              THEN Queued(data["queue_position"]) ELSE Raised("KeyError")
       ELSE IF "status" \in DOMAIN data /\ data["status"] = "IN_PROGRESS"
         THEN IF "logs" \in DOMAIN data
              THEN InProgress(data["logs"]) ELSE Raised("KeyError")
       ELSE IF response.code = 200
         THEN IF "logs" \in DOMAIN data
              THEN Completed(data["logs"]) ELSE Raised("KeyError")
       ELSE IF "status" \notin DOMAIN data THEN Raised("KeyError")
       ELSE Raised("ValueError")

\* RequestHandle.status, lines 99-111: what the call makes of the response
status(response) ==
    LET data == response.body
    IN IF ~is_success(response.code) THEN Raised("HTTPStatusError")
       ELSE IF response.code = 200
         THEN IF "logs" \in DOMAIN data
              THEN Completed(data["logs"]) ELSE Raised("KeyError")
       ELSE IF "status" \notin DOMAIN data THEN Raised("KeyError")
       ELSE IF data["status"] = "IN_QUEUE"
         THEN IF "queue_position" \in DOMAIN data
              THEN Queued(data["queue_position"]) ELSE Raised("KeyError")
       ELSE IF data["status"] = "IN_PROGRESS"
         THEN IF "logs" \in DOMAIN data
              THEN InProgress(data["logs"]) ELSE Raised("KeyError")
       ELSE Raised("ValueError")

\* RequestHandle.fetch_result, lines 146-159: the value returned, or the
\* HTTPStatusError raised (with the body text when the body is JSON);
\* response.headers["Content-Type"] at line 150 is a KeyError when the
\* response has no such header
fetch_result(response) ==
    IF ~is_success(response.code)
    THEN [state |-> "raised", val |-> EmptyBody,
          err |-> IF response.ctype = "absent" THEN "KeyError"
                  ELSE IF response.ctype # "application/json"
                  THEN "HTTPStatusError"
                  ELSE "HTTPStatusError: body"]
    ELSE [state |-> "returned", val |-> response.body, err |-> "none"]

Running == [state |-> "running", val |-> EmptyBody, err |-> "none"]
Ended(st, e) == [state |-> st, val |-> EmptyBody, err |-> e]
NoPoll == [resp |-> [code |-> 0, ctype |-> "none", body |-> EmptyBody],
           out |-> [kind |-> "none"]]

Ev(e) == [e |-> e]
EvSt(e, st) == [e |-> e, st |-> st]
Count(e) == Cardinality({i \in 1..Len(qtrace) : qtrace[i].e = e})

TokensIdle == UNCHANGED tokenVars /\ AccessIdle

\* run, lines 203 and 221-234: submit POSTs the arguments and builds the handle
run_submit ==
    /\ qpc = "submit"
    /\ qtrace' = Append(qtrace, Ev("submit"))
    /\ \/ /\ qpc' = "poll"
          /\ UNCHANGED qout
       \/ /\ qpc' = "done"
          /\ qout' = Ended("raised", "HTTPStatusError")
    /\ UNCHANGED <<qlast, qsrv>>
    /\ TokensIdle /\ WsIdle /\ Elsewhere

\* where iter_events goes after a poll, lines 131-136
after_poll(st) ==
    IF ~IsStatus(st) THEN "done"
    ELSE IF st.kind = "Completed"
         THEN (IF qsrv.entry = "iter_events" THEN "done" ELSE "fetch")
    ELSE "yield"

\* faulty variant: Completed is yielded like any other status
iter_events_poll_yields_all ==
    /\ qpc = "poll"
    /\ Count("poll") < MaxPolls
    /\ \E response \in StatusResponses :
          LET st == status(response)
          IN /\ qlast' = [resp |-> response, out |-> st]
             /\ qtrace' = Append(qtrace, EvSt("poll", st))
             /\ qpc' = IF IsStatus(st) THEN "yield" ELSE "done"
             /\ qout' = IF ~IsStatus(st) THEN Ended("raised", st.err) ELSE qout
    /\ UNCHANGED qsrv
    /\ TokensIdle /\ WsIdle /\ Elsewhere

\* iter_events, lines 130-134: one status poll; Completed ends the sequence,
\* an exception of status() ends it with that exception
iter_events_poll ==
    /\ qpc = "poll"
    /\ Count("poll") < MaxPolls
    /\ \E response \in StatusResponses :
          LET st == status(response)
          IN /\ qlast' = [resp |-> response, out |-> st]
             /\ qtrace' = Append(qtrace, EvSt("poll", st))
             /\ qpc' = after_poll(st)
             /\ qout' = IF ~IsStatus(st) THEN Ended("raised", st.err)
                        ELSE IF after_poll(st) = "done" THEN Ended("exhausted", "none")
                        ELSE qout
    /\ UNCHANGED qsrv
    /\ TokensIdle /\ WsIdle /\ Elsewhere

\* iter_events, line 136: the status is handed to the consumer
iter_events_yield ==
    /\ qpc = "yield"
    /\ qtrace' = Append(qtrace, EvSt("yield", qlast.out))
    /\ qpc' = "consumer"
    /\ UNCHANGED <<qlast, qout, qsrv>>
    /\ TokensIdle /\ WsIdle /\ Elsewhere

\* faulty variant: get stops draining at the first event
get_break ==
    /\ qpc = "consumer"
    /\ qsrv.entry \in {"get", "run"}
    /\ qpc' = "fetch"
    /\ UNCHANGED <<qtrace, qlast, qout, qsrv>>
    /\ TokensIdle /\ WsIdle /\ Elsewhere

\* get, lines 165-166: the event is dropped and the next one asked for
get_continue ==
    /\ qpc = "consumer"
    /\ qsrv.entry \in {"get", "run"}
    /\ qpc' = "sleep"
    /\ UNCHANGED <<qtrace, qlast, qout, qsrv>>
    /\ TokensIdle /\ WsIdle /\ Elsewhere

\* a caller of iter_events asks for the next event
consumer_next ==
    /\ qpc = "consumer"
    /\ qsrv.entry = "iter_events"
    /\ qpc' = "sleep"
    /\ UNCHANGED <<qtrace, qlast, qout, qsrv>>
    /\ TokensIdle /\ WsIdle /\ Elsewhere

\* a caller of iter_events abandons the iteration
consumer_abandon ==
    /\ qpc = "consumer"
    /\ qsrv.entry = "iter_events"
    /\ qpc' = "done"
    /\ qout' = Ended("abandoned", "none")
    /\ UNCHANGED <<qtrace, qlast, qsrv>>
    /\ TokensIdle /\ WsIdle /\ Elsewhere

\* iter_events, line 137: time.sleep(__poll_delay), then the next poll
iter_events_sleep ==
    /\ qpc = "sleep"
    /\ qtrace' = Append(qtrace, Ev("sleep"))
    /\ qpc' = "poll"
    /\ UNCHANGED <<qlast, qout, qsrv>>
    /\ TokensIdle /\ WsIdle /\ Elsewhere

\* get, line 168: return self.fetch_result()
get_fetch_result ==
    /\ qpc = "fetch"
    /\ qtrace' = Append(qtrace, Ev("result"))
    /\ \E response \in ResultResponses(qsrv.payload) :
          qout' = fetch_result(response)
    /\ qpc' = "done"
    /\ UNCHANGED <<qlast, qsrv>>
    /\ TokensIdle /\ WsIdle /\ Elsewhere

TokensRest ==
    /\ store = NoPair
    /\ lock = NoProc
    /\ pc = [p \in Procs |-> "off"]
    /\ op = [p \in Procs |-> "none"]
    /\ loc = [p \in Procs |-> NoLocals]
    /\ ret = [p \in Procs |-> Pending]
    /\ call = [p \in Procs |-> NoCall]
    /\ idp = "none"
    /\ expired = {}
    /\ hist = "none"
    /\ AccessRest

InitQueue ==
    /\ qsrv \in [entry : {"run", "get", "iter_events"}, payload : Payloads]
    /\ qpc = IF qsrv.entry = "run" THEN "submit" ELSE "poll"
    /\ qtrace = <<>>
    /\ qlast = NoPoll
    /\ qout = Running
    /\ TokensRest
    /\ WsRest
    /\ ElsewhereRest

NextQueue ==
    \/ run_submit
    \/ iter_events_poll
    \/ iter_events_yield
    \/ get_continue
    \/ consumer_next
    \/ consumer_abandon
    \/ iter_events_sleep
    \/ get_fetch_result

SpecQueue == InitQueue /\ [][NextQueue]_vars

(***************************************************************************)
(* Claims about the request handle (checked under SpecQueue).              *)
(***************************************************************************)
IsEv(i, e) == i >= 1 /\ i <= Len(qtrace) /\ qtrace[i].e = e
PollIs(i, kinds) == IsEv(i, "poll") /\ qtrace[i].st.kind \in kinds
PendingKinds == {"Queued", "InProgress"}

\* the places of the status polls in the trace
PollIdx == {i \in 1..Len(qtrace) : qtrace[i].e = "poll"}

\* C3: iter_events yields exactly the statuses polled before the first
\* Completed, one per poll and in order, never Completed; Completed ends
\* the sequence with no further poll; exactly one sleep lies between two
\* consecutive polls and none follows the poll that saw Completed.
C3_EventsUntilCompleted ==
    /\ \A i \in 1..Len(qtrace) :
          \* a yield hands out the status of the poll just made, never Completed
          /\ IsEv(i, "yield") =>
                /\ PollIs(i - 1, PendingKinds)
                /\ qtrace[i].st = qtrace[i - 1].st
          \* a pending status is yielded before anything else happens
          /\ (PollIs(i, PendingKinds) /\ i < Len(qtrace)) => IsEv(i + 1, "yield")
          \* a sleep follows a yield, and only a poll follows a sleep
          /\ IsEv(i, "sleep") => IsEv(i - 1, "yield")
          /\ (IsEv(i, "sleep") /\ i < Len(qtrace)) => IsEv(i + 1, "poll")
          /\ (IsEv(i, "yield") /\ i < Len(qtrace)) => IsEv(i + 1, "sleep")
          \* every poll but the first comes after poll, yield, one sleep
          /\ (IsEv(i, "poll") /\ \E j \in PollIdx : j < i) =>
                /\ IsEv(i - 1, "sleep")
                /\ IsEv(i - 2, "yield")
                /\ PollIs(i - 3, PendingKinds)
          \* nothing of the iteration follows the poll that saw Completed
          /\ PollIs(i, {"Completed"}) =>
                \A j \in (i + 1)..Len(qtrace) :
                    qtrace[j].e \notin {"poll", "yield", "sleep"}
    \* the sequence ends normally only at Completed, with every earlier
    \* status yielded and one sleep per yield
    /\ (qout.state = "exhausted" \/ qpc = "fetch") =>
          /\ PollIs(Len(qtrace), {"Completed"})
          /\ Count("yield") = Count("poll") - 1
          /\ Count("sleep") = Count("yield")
          /\ \A i \in PollIdx : i < Len(qtrace) => PollIs(i, PendingKinds)

\* Queued, Queued, InProgress, Completed: three yields, three sleeps
C3_Witness ==
    /\ qsrv.entry = "iter_events"
    /\ qout.state = "exhausted"
    /\ Len(qtrace) = 10
    /\ PollIs(1, {"Queued"}) /\ PollIs(4, {"Queued"})
    /\ PollIs(7, {"InProgress"}) /\ PollIs(10, {"Completed"})
    /\ Count("yield") = 3
    /\ Count("sleep") = 3

\* C4: get() and run() issue the result request at most once, only right
\* after a status poll returned Completed, and exactly once when they
\* return; the value returned is the server's payload unchanged; a
\* consumer of iter_events alone issues none.
C4_ResultAfterCompleted ==
    /\ Count("result") <= 1
    /\ \A i \in 1..Len(qtrace) :
          IsEv(i, "result") => PollIs(i - 1, {"Completed"})
    /\ qout.state = "returned" =>
          /\ Count("result") = 1
          /\ qout.val = qsrv.payload
    /\ (\A i \in PollIdx : ~PollIs(i, {"Completed"})) => Count("result") = 0
    /\ qsrv.entry = "iter_events" => Count("result") = 0

\* run() on a server that completes at the third poll
C4_Witness ==
    /\ qsrv.entry = "run"
    /\ qout.state = "returned"
    /\ qout.val = [images |-> "b", seed |-> "s"]
    /\ Count("poll") = 3
    /\ Count("result") = 1

\* C7: status() on a successful response: 200 gives Completed with the
\* body's logs whatever else the body holds; another success code gives
\* Queued(queue_position) for "IN_QUEUE", InProgress(logs) for
\* "IN_PROGRESS", and a ValueError for any other status string.
C7_StatusMapping ==
    LET code == qlast.resp.code
        data == qlast.resp.body
        out  == qlast.out
        has(k) == k \in DOMAIN data
    IN qlast # NoPoll =>
        /\ (code = 200 /\ has("logs")) =>
              out = [kind |-> "Completed", logs |-> data["logs"]]
        /\ (code \in 201..299 /\ has("status") /\ data["status"] = "IN_QUEUE"
              /\ has("queue_position")) =>
              out = [kind |-> "Queued", position |-> data["queue_position"]]
        /\ (code \in 201..299 /\ has("status") /\ data["status"] = "IN_PROGRESS"
              /\ has("logs")) =>
              out = [kind |-> "InProgress", logs |-> data["logs"]]
        /\ (code \in 201..299 /\ has("status")
              /\ data["status"] \notin {"IN_QUEUE", "IN_PROGRESS"}) =>
              out = [kind |-> "error", err |-> "ValueError"]

\* a 200 whose body also says IN_QUEUE is Completed
C7_Witness ==
    /\ qlast.resp.code = 200
    /\ qlast.resp.body = [status |-> "IN_QUEUE", logs |-> "[log]"]
    /\ qlast.out = [kind |-> "Completed", logs |-> "[log]"]

(***************************************************************************)
(* _WSConnection, fal/apps.py lines 294-396: the duplex channel.           *)
(*                                                                         *)
(* A frame off the socket is a str, [str |-> text], or bytes,              *)
(* [bytes |-> <<b1, ..., bn>>].                                             *)
(***************************************************************************)
\* the JSON text of a control message
control_text(type, request_id) ==
    CASE type = "start" /\ request_id = 7 -> "{\"type\":\"start\",\"request_id\":7}"
      [] type = "start" /\ request_id = 8 -> "{\"type\":\"start\",\"request_id\":8}"
      [] type = "end"   /\ request_id = 7 -> "{\"type\":\"end\",\"request_id\":7}"
      [] type = "end"   /\ request_id = 8 -> "{\"type\":\"end\",\"request_id\":8}"
      [] type = "error" /\ request_id = 7 -> "{\"type\":\"error\",\"request_id\":7}"

Ctl(type, request_id) == [str |-> control_text(type, request_id)]
RequestIds  == {7, 8}
StartFrames == {Ctl("start", id) : id \in RequestIds}
EndFrames   == {Ctl("end", id) : id \in RequestIds}
ControlFrames == StartFrames \cup EndFrames \cup {Ctl("error", 7)}
\* payload frames: plain text, bytes, JSON that is no object or lacks a
\* field, and bytes that spell a control message
DataFrames  == {[str |-> "a"], [bytes |-> <<98>>],
                [str |-> "[1]"],
                [str |-> "{\"type\":\"start\"}"],
                [str |-> "{\"request_id\":7}"],
                [bytes |-> <<123, 34, 116, 121, 112, 101, 34, 58, 34, 101, 110, 100, 34, 44, 34, 114, 101, 113, 117, 101, 115, 116, 95, 105, 100, 34, 58, 55, 125>>]}
Frames      == ControlFrames \cup DataFrames

\* json.loads(text): the parsed value, or JSONDecodeError
json_loads(text) ==
    CASE text = "{\"type\":\"start\",\"request_id\":7}" ->
            [kind |-> "dict", keys |-> {"type", "request_id"}, type |-> "start", request_id |-> 7]
      [] text = "{\"type\":\"start\",\"request_id\":8}" ->
            [kind |-> "dict", keys |-> {"type", "request_id"}, type |-> "start", request_id |-> 8]
      [] text = "{\"type\":\"end\",\"request_id\":7}" ->
            [kind |-> "dict", keys |-> {"type", "request_id"}, type |-> "end", request_id |-> 7]
      [] text = "{\"type\":\"end\",\"request_id\":8}" ->
            [kind |-> "dict", keys |-> {"type", "request_id"}, type |-> "end", request_id |-> 8]
      [] text = "{\"type\":\"error\",\"request_id\":7}" ->
            [kind |-> "dict", keys |-> {"type", "request_id"}, type |-> "error", request_id |-> 7]
      [] text = "{\"type\":\"start\"}" ->
            [kind |-> "dict", keys |-> {"type"}, type |-> "start", request_id |-> 0]
      [] text = "{\"request_id\":7}" ->
            [kind |-> "dict", keys |-> {"request_id"}, type |-> "none", request_id |-> 7]
      [] text = "[1]" ->
            [kind |-> "list", keys |-> {}, type |-> "none", request_id |-> 0]
      [] OTHER -> [kind |-> "JSONDecodeError", keys |-> {}, type |-> "none", request_id |-> 0]

\* str.encode(): the UTF-8 bytes of a text
encode(text) ==
    CASE text = "a" -> <<97>>
      [] text = "[1]" -> <<91, 49, 93>>
      [] text = "{\"request_id\":7}" ->
            <<123, 34, 114, 101, 113, 117, 101, 115, 116, 95, 105, 100, 34, 58, 55, 125>>
      [] text = "{\"type\":\"start\"}" ->
            <<123, 34, 116, 121, 112, 101, 34, 58, 34, 115, 116, 97, 114, 116, 34, 125>>
      [] text = "{\"type\":\"start\",\"request_id\":7}" ->
            <<123, 34, 116, 121, 112, 101, 34, 58, 34, 115, 116, 97, 114, 116, 34, 44, 34, 114, 101, 113, 117, 101, 115, 116, 95, 105, 100, 34, 58, 55, 125>>
      [] text = "{\"type\":\"start\",\"request_id\":8}" ->
            <<123, 34, 116, 121, 112, 101, 34, 58, 34, 115, 116, 97, 114, 116, 34, 44, 34, 114, 101, 113, 117, 101, 115, 116, 95, 105, 100, 34, 58, 56, 125>>
      [] text = "{\"type\":\"end\",\"request_id\":7}" ->
            <<123, 34, 116, 121, 112, 101, 34, 58, 34, 101, 110, 100, 34, 44, 34, 114, 101, 113, 117, 101, 115, 116, 95, 105, 100, 34, 58, 55, 125>>
      [] text = "{\"type\":\"end\",\"request_id\":8}" ->
            <<123, 34, 116, 121, 112, 101, 34, 58, 34, 101, 110, 100, 34, 44, 34, 114, 101, 113, 117, 101, 115, 116, 95, 105, 100, 34, 58, 56, 125>>
      [] text = "{\"type\":\"error\",\"request_id\":7}" ->
            <<123, 34, 116, 121, 112, 101, 34, 58, 34, 101, 114, 114, 111, 114, 34, 44, 34, 114, 101, 113, 117, 101, 115, 116, 95, 105, 100, 34, 58, 55, 125>>

isinstance_str(res) == "str" \in DOMAIN res

\* faulty variant: a JSON object with a type field passes without a request_id
is_meta_type_only(res) ==
    IF ~isinstance_str(res) THEN FALSE
    ELSE LET json_payload == json_loads(res.str)
         IN IF json_payload.kind = "JSONDecodeError" THEN FALSE
            ELSE IF json_payload.kind # "dict" THEN FALSE
            ELSE "type" \in json_payload.keys

\* _is_meta, lines 333-345
is_meta(res) ==
    IF ~isinstance_str(res) THEN FALSE
    ELSE LET json_payload == json_loads(res.str)
         IN IF json_payload.kind = "JSONDecodeError" THEN FALSE
            ELSE IF json_payload.kind # "dict" THEN FALSE
            ELSE "type" \in json_payload.keys /\ "request_id" \in json_payload.keys

\* _peek, lines 312-316: the frames _peek may return; a new frame is read
\* from the socket only when the buffer is empty
peek == IF wbuf = <<>> THEN Frames ELSE {wbuf[1]}
can_peek == wbuf # <<>> \/ Len(wsock) < MaxFrames
\* faulty variant: _peek reads the socket although a frame is buffered
after_read_always(res) == Append(wsock, res)

\* the socket history after a _peek that returned res
after_read(res) == IF wbuf = <<>> THEN Append(wsock, res) ELSE wsock

\* _recv_meta, lines 347-356: the error raised for res, "none" if it is a
\* control message of the wanted type
recv_meta_error(res, type) ==
    IF ~is_meta(res) THEN "Expected a " \o type \o " message"
    ELSE IF json_loads(res.str).type # type THEN "Expected a " \o type \o " message"
    ELSE "none"

WsOk(val, from)  == [ok |-> TRUE, val |-> val, err |-> "none", from |-> from,
                     to |-> Len(wsock)]
WsErr(err, from, to) == [ok |-> FALSE, val |-> <<>>, err |-> err, from |-> from,
                         to |-> to]
WsLocals == [request_id |-> 0, response |-> <<>>, from |-> 0]

QueueWsOthers == TokensIdle /\ QueueIdle /\ Elsewhere

\* faulty variant: a frame that is not a start message is consumed all the same
recv_start_consumes ==
    /\ wpc = "idle"
    /\ Len(wret) < MaxRecvs
    /\ can_peek
    /\ \E res \in peek :
          LET e    == recv_meta_error(res, "start")
              from == Len(after_read(res))
          IN /\ wsock' = after_read(res)
             /\ wbuf' = <<>>
             /\ IF e # "none"
                THEN /\ wret' = Append(wret, WsErr(e, from, from))
                     /\ wpc' = "idle"
                     /\ UNCHANGED wloc
                ELSE /\ wloc' = [request_id |-> json_loads(res.str).request_id,
                                 response |-> <<>>, from |-> from]
                     /\ wpc' = "parts"
                     /\ UNCHANGED wret
    /\ QueueWsOthers

\* recv, lines 371-374: start = self._recv_meta("start"); a frame that is
\* not a start message stays in the buffer and the call raises
recv_start ==
    /\ wpc = "idle"
    /\ Len(wret) < MaxRecvs
    /\ can_peek
    /\ \E res \in peek :
          LET e    == recv_meta_error(res, "start")
              from == Len(after_read(res))
          IN /\ wsock' = after_read(res)
             /\ IF e # "none"
                THEN /\ wbuf' = <<res>>
                     /\ wret' = Append(wret, WsErr(e, from, from))
                     /\ wpc' = "idle"
                     /\ UNCHANGED wloc
                ELSE /\ wbuf' = <<>>
                     /\ wloc' = [request_id |-> json_loads(res.str).request_id,
                                 response |-> <<>>, from |-> from]
                     /\ wpc' = "parts"
                     /\ UNCHANGED wret
    /\ QueueWsOthers

\* faulty variant: a part is put in front of the response instead of behind it
recv_part_prepends ==
    /\ wpc = "parts"
    /\ can_peek
    /\ \E res \in peek :
          /\ wsock' = after_read(res)
          /\ IF is_meta(res)
             THEN /\ wbuf' = <<res>>
                  /\ wpc' = "end"
                  /\ UNCHANGED wloc
             ELSE /\ wbuf' = <<>>
                  /\ wloc' = [wloc EXCEPT !.response =
                                (IF isinstance_str(res) THEN encode(res.str)
                                 ELSE res.bytes) \o @]
                  /\ wpc' = "parts"
    /\ UNCHANGED wret
    /\ QueueWsOthers

\* recv, lines 375-379 over _recv_response, lines 359-368: one frame; a
\* control message is left in the buffer and ends the loop, anything else
\* is appended to the response and consumed
recv_part ==
    /\ wpc = "parts"
    /\ can_peek
    /\ \E res \in peek :
          /\ wsock' = after_read(res)
          /\ IF is_meta(res)
             THEN /\ wbuf' = <<res>>
                  /\ wpc' = "end"
                  /\ UNCHANGED wloc
             ELSE /\ wbuf' = <<>>
                  /\ wloc' = [wloc EXCEPT !.response =
                                @ \o (IF isinstance_str(res) THEN encode(res.str)
                                      ELSE res.bytes)]
                  /\ wpc' = "parts"
    /\ UNCHANGED wret
    /\ QueueWsOthers

\* faulty variant: the end message's request_id is not compared with the start's
recv_end_unmatched ==
    /\ wpc = "end"
    /\ can_peek
    /\ \E res \in peek :
          LET e == recv_meta_error(res, "end")
          IN /\ wsock' = after_read(res)
             /\ IF e # "none"
                THEN /\ wbuf' = <<res>>
                     /\ wret' = Append(wret, WsErr(e, wloc.from, Len(wsock')))
                ELSE /\ wbuf' = <<>>
                     /\ wret' = Append(wret, WsOk(wloc.response, wloc.from))
    /\ wpc' = "idle"
    /\ wloc' = WsLocals
    /\ QueueWsOthers

\* recv, lines 381-385: end = self._recv_meta("end"), then the request_id
\* check and the return of the accumulated bytes
recv_end ==
    /\ wpc = "end"
    /\ can_peek
    /\ \E res \in peek :
          LET e == recv_meta_error(res, "end")
          IN /\ wsock' = after_read(res)
             /\ IF e # "none"
                THEN /\ wbuf' = <<res>>
                     /\ wret' = Append(wret, WsErr(e, wloc.from, Len(wsock')))
                ELSE /\ wbuf' = <<>>
                     /\ wret' = Append(wret,
                           IF json_loads(res.str).request_id # wloc.request_id
                           THEN WsErr("Mismatched request_id in end message",
                                      wloc.from, Len(wsock'))
                           ELSE WsOk(wloc.response, wloc.from))
    /\ wpc' = "idle"
    /\ wloc' = WsLocals
    /\ QueueWsOthers

QueueOff ==
    /\ qpc = "off"
    /\ qtrace = <<>>
    /\ qlast = NoPoll
    /\ qout = Running
    /\ qsrv = [entry |-> "none", payload |-> EmptyBody]

InitWS ==
    /\ wbuf = <<>>
    /\ wsock = <<>>
    /\ wpc = "idle"
    /\ wloc = WsLocals
    /\ wret = <<>>
    /\ TokensRest
    /\ QueueOff
    /\ ElsewhereRest

NextWS ==
    \/ recv_start
    \/ recv_part
    \/ recv_end

SpecWS == InitWS /\ [][NextWS]_vars

(***************************************************************************)
(* Claims about the duplex channel (checked under SpecWS).                 *)
(***************************************************************************)
\* the place of the first control frame of s at or after place i, 0 if none
FirstControl(s, i) ==
    LET at == {j \in i..Len(s) : s[j] \in ControlFrames}
    IN IF at = {} THEN 0 ELSE CHOOSE j \in at : \A k \in at : j <= k

\* s starts with a complete response that ends at place j
ResponseEndsAt(s, j) ==
    /\ j >= 2
    /\ j = FirstControl(s, 2)
    /\ \E id \in RequestIds : s[1] = Ctl("start", id) /\ s[j] = Ctl("end", id)

\* the bytes a response's data frames carry, in arrival order
RECURSIVE PayloadOf(_)
PayloadOf(parts) ==
    IF parts = <<>> THEN <<>>
    ELSE (IF "bytes" \in DOMAIN Head(parts)
          THEN Head(parts).bytes ELSE encode(Head(parts).str))
         \o PayloadOf(Tail(parts))

\* the payloads of the complete responses s starts with
RECURSIVE Responses(_)
Responses(s) ==
    IF s = <<>> THEN <<>>
    ELSE LET j == FirstControl(s, 2)
         IN IF ResponseEndsAt(s, j)
            THEN <<PayloadOf(SubSeq(s, 2, j - 1))>> \o Responses(SubSeq(s, j + 1, Len(s)))
            ELSE <<>>

\* what is left of s after its complete responses
RECURSIVE Remainder(_)
Remainder(s) ==
    IF s = <<>> THEN <<>>
    ELSE LET j == FirstControl(s, 2)
         IN IF ResponseEndsAt(s, j) THEN Remainder(SubSeq(s, j + 1, Len(s))) ELSE s

\* the socket delivered well-formed responses back to back (the last one
\* may still be arriving)
WellFormedSoFar ==
    LET r == Remainder(wsock)
    IN r = <<>> \/ (r[1] \in StartFrames /\ \A i \in 2..Len(r) : r[i] \in DataFrames)

\* C5: on a socket that delivers well-formed responses back to back, the
\* k-th recv() returns the concatenated bytes of the k-th response's data
\* frames, text encoded and bytes raw, in arrival order; empty when the
\* response has no data frame.
C5_RecvReturnsResponse ==
    WellFormedSoFar =>
        \A k \in 1..Len(wret) :
            /\ k <= Len(Responses(wsock))
            /\ wret[k].ok
            /\ wret[k].val = Responses(wsock)[k]

\* Start(7), "a", b"b", End(7), Start(8), End(8): b"ab", then b""
C5_Witness ==
    /\ wsock = <<Ctl("start", 7), [str |-> "a"], [bytes |-> <<98>>], Ctl("end", 7),
                 Ctl("start", 8), Ctl("end", 8)>>
    /\ Len(wret) = 2
    /\ wret[1].val = <<97, 98>>
    /\ wret[2].val = <<>>
    /\ wret[2].ok

\* C6: a recv() whose frames do not form a well-formed response raises a
\* ValueError and returns nothing: the first frame is no start message,
\* the control frame ending the data is no end message, or the end
\* message's request_id differs from the start's.
C6_MalformedRaises ==
    \A k \in 1..Len(wret) :
        LET c   == wret[k]
            seg == SubSeq(wsock, c.from, c.to)
            j   == FirstControl(seg, 2)
        IN /\ seg # <<>>
           /\ seg[1] \notin StartFrames =>
                 ~c.ok /\ c.err = "Expected a start message" /\ c.val = <<>>
           /\ (seg[1] \in StartFrames /\ j # 0 /\ seg[j] \notin EndFrames) =>
                 ~c.ok /\ c.err = "Expected a end message" /\ c.val = <<>>
           /\ (seg[1] \in StartFrames /\ j # 0 /\ seg[j] \in EndFrames
                 /\ ~ResponseEndsAt(seg, j)) =>
                 ~c.ok /\ c.err = "Mismatched request_id in end message" /\ c.val = <<>>
           /\ c.ok => ResponseEndsAt(seg, Len(seg))

\* Start(7), "a", b"b", End(8): the mismatch is raised
C6_Witness ==
    /\ wsock = <<Ctl("start", 7), [str |-> "a"], [bytes |-> <<98>>], Ctl("end", 8)>>
    /\ Len(wret) = 1
    /\ ~wret[1].ok
    /\ wret[1].err = "Mismatched request_id in end message"

(***************************************************************************)
(* key_credentials, fal/auth/__init__.py lines 57-71.                      *)
(*                                                                         *)
(* A text is a sequence of characters; an optional text is                 *)
(* [set |-> BOOLEAN, val |-> text], set = FALSE for an absent environment  *)
(* variable, a missing configuration entry or a None.                      *)
(***************************************************************************)
Absent    == [set |-> FALSE, val |-> <<>>]
Text(t)   == [set |-> TRUE, val |-> t]

\* the texts of at most n characters over the alphabet chars
RECURSIVE TextsUpTo(_, _)
TextsUpTo(chars, n) ==
    IF n = 0 THEN {<<>>}
    ELSE LET shorter == TextsUpTo(chars, n - 1)
         IN shorter \cup {Append(t, c) : t \in shorter, c \in chars}

\* the key texts one source can hold: its own letter and colons, so that the
\* result of key_credentials tells which source it came from
KeyTexts(letter) == TextsUpTo({letter, ":"}, MaxKeyLen)
Optional(texts)  == {Absent} \cup {Text(t) : t \in texts}

\* Python truthiness of an Optional[str]: None and "" are falsy
truthy(v) == v.set /\ v.val # <<>>

\* a or b
py_or(a, b) == IF truthy(a) THEN a ELSE b

\* the place of the first ":" of key, 0 when it has none
first_colon(key) ==
    LET at == {i \in 1..Len(key) : key[i] = ":"}
    IN IF at = {} THEN 0 ELSE CHOOSE i \in at : \A j \in at : i <= j

\* key.split(":", 1)
split_1(key) ==
    LET i == first_colon(key)
    IN IF i = 0 THEN <<key>>
       ELSE <<SubSeq(key, 1, i - 1), SubSeq(key, i + 1, Len(key))>>

KeyNone        == [kind |-> "None", key_id |-> <<>>, key_secret |-> <<>>]
KeyPair(i, s)  == [kind |-> "pair", key_id |-> i, key_secret |-> s]
KeyValueError  == [kind |-> "ValueError", key_id |-> <<>>, key_secret |-> <<>>]

\* faulty variant: the configured key is looked up before the environment
key_credentials_config_first(env) ==
    IF env.FAL_FORCE_AUTH_BY_USER = Text(<<"1">>) THEN KeyNone
    ELSE LET key == py_or(py_or(env.config_key, env.FAL_KEY), env.colab_token)
         IN IF truthy(key)
            THEN (IF Len(split_1(key.val)) = 2
                  THEN KeyPair(split_1(key.val)[1], split_1(key.val)[2])
                  ELSE KeyValueError)
            ELSE IF env.FAL_KEY_ID.set /\ env.FAL_KEY_SECRET.set
                 THEN KeyPair(env.FAL_KEY_ID.val, env.FAL_KEY_SECRET.val)
            ELSE KeyNone

\* key_credentials(), lines 57-71; unpacking a split without a colon into
\* (key_id, key_secret) raises ValueError
key_credentials(env) ==
    IF env.FAL_FORCE_AUTH_BY_USER = Text(<<"1">>) THEN KeyNone
    ELSE LET key == py_or(py_or(env.FAL_KEY, env.config_key), env.colab_token)
         IN IF truthy(key)
            THEN (IF Len(split_1(key.val)) = 2
                  THEN KeyPair(split_1(key.val)[1], split_1(key.val)[2])
                  ELSE KeyValueError)
            ELSE IF env.FAL_KEY_ID.set /\ env.FAL_KEY_SECRET.set
                 THEN KeyPair(env.FAL_KEY_ID.val, env.FAL_KEY_SECRET.val)
            ELSE KeyNone

\* line 64: get_colab_token() is evaluated only when the two sources before
\* it are falsy
colab_asked(env) ==
    /\ env.FAL_FORCE_AUTH_BY_USER # Text(<<"1">>)
    /\ ~truthy(env.FAL_KEY)
    /\ ~truthy(env.config_key)

\* fal.sdk.get_default_credentials: key credentials when key_credentials()
\* gives a key, the stored bearer token otherwise
get_default_credentials(key) ==
    IF key.kind = "pair" THEN "key" ELSE "bearer"

KeyEnvs ==
    [FAL_FORCE_AUTH_BY_USER : Optional({<<"1">>, <<"0">>, <<"t", "r", "u", "e">>}),
     FAL_KEY        : Optional(KeyTexts("e")),
     config_key     : Optional(KeyTexts("c")),
     colab_token    : Optional(KeyTexts("n")),
     FAL_KEY_ID     : Optional({<<"i">>}),
     FAL_KEY_SECRET : Optional({<<"s">>}),
     bearer_valid   : BOOLEAN,
     state          : {"on"}]

TokensQueueWsIdle == TokensIdle /\ QueueIdle /\ WsIdle

\* one call of key_credentials() in the environment kenv
key_credentials_call ==
    /\ kres.state = "pending"
    /\ LET key == key_credentials(kenv)
       IN kres' = [state |-> "done", key |-> key,
                   colab_asked |-> colab_asked(kenv),
                   creds |-> IF key.kind = "ValueError" THEN "raised"
                             ELSE get_default_credentials(key)]
    /\ UNCHANGED kenv
    /\ TokensQueueWsIdle /\ AppIdle /\ ColabIdle /\ StreamIdle

InitKeys ==
    /\ kenv \in KeyEnvs
    /\ kres = [state |-> "pending"]
    /\ TokensRest
    /\ QueueOff
    /\ WsRest
    /\ AppRest
    /\ ColabRest
    /\ StreamRest

NextKeys == key_credentials_call

SpecKeys == InitKeys /\ [][NextKeys]_vars

(***************************************************************************)
(* Claims about key resolution (checked under SpecKeys).                   *)
(***************************************************************************)
\* a source holds a key: it is set and not empty
HasKey(v) == v.set /\ Len(v.val) > 0

\* the key of the first source, in the order environment, configuration,
\* notebook, that holds one
ChosenKey ==
    IF HasKey(kenv.FAL_KEY) THEN kenv.FAL_KEY.val
    ELSE IF HasKey(kenv.config_key) THEN kenv.config_key.val
    ELSE IF HasKey(kenv.colab_token) THEN kenv.colab_token.val
    ELSE <<>>

ForceAuthByUser == kenv.FAL_FORCE_AUTH_BY_USER = Text(<<"1">>)
WellFormedKey(k) == \E i \in 1..Len(k) : k[i] = ":"

\* C11: key_credentials follows a fixed precedence for every combination of
\* sources: with the force-interactive-auth flag set (to "1") no key is
\* returned; otherwise the key of the environment wins over the configured
\* one, which wins over the notebook secret, which wins over the legacy
\* id/secret pair of the environment; the chosen "id:secret" key is split on
\* its first colon only; with none present the result is absent; and a key
\* of the environment is used even when a valid bearer token is stored.
C11_KeyPrecedence ==
    kres.state = "done" =>
      /\ ForceAuthByUser => kres.key = KeyNone
      /\ (~ForceAuthByUser /\ ChosenKey # <<>> /\ WellFormedKey(ChosenKey)) =>
            /\ kres.key.kind = "pair"
            /\ kres.key.key_id \o <<":">> \o kres.key.key_secret = ChosenKey
            /\ \A i \in 1..Len(kres.key.key_id) : kres.key.key_id[i] # ":"
      /\ (~ForceAuthByUser /\ ChosenKey = <<>>) =>
            IF kenv.FAL_KEY_ID.set /\ kenv.FAL_KEY_SECRET.set
            THEN kres.key = KeyPair(kenv.FAL_KEY_ID.val, kenv.FAL_KEY_SECRET.val)
            ELSE kres.key = KeyNone
      /\ (~ForceAuthByUser /\ HasKey(kenv.FAL_KEY) /\ WellFormedKey(kenv.FAL_KEY.val)
          /\ kenv.bearer_valid) =>
            /\ kres.creds = "key"
            /\ kres.key.key_id \o <<":">> \o kres.key.key_secret = kenv.FAL_KEY.val

\* every source holds a key, the one of the environment has two colons, a
\* valid bearer token is stored, and the call has returned
C11_Witness ==
    /\ kres.state = "done"
    /\ ~ForceAuthByUser
    /\ kenv.FAL_KEY = Text(<<"e", ":", ":">>)
    /\ HasKey(kenv.config_key) /\ WellFormedKey(kenv.config_key.val)
    /\ HasKey(kenv.colab_token)
    /\ kenv.FAL_KEY_ID.set /\ kenv.FAL_KEY_SECRET.set
    /\ kenv.bearer_valid
    /\ kres.key = KeyPair(<<"e">>, <<":">>)

(***************************************************************************)
(* submit and the RequestHandle's requests, fal/apps.py lines 24-29,       *)
(* 77-120, 139-159 and 207-234.                                            *)
(*                                                                         *)
(* An app_id, a path and a URL are texts: sequences of characters, where a *)
(* run of letters that never needs taking apart ("workflows", "abc", the   *)
(* host prefix) counts as one character.                                   *)
(***************************************************************************)
\* _QUEUE_URL_FORMAT, line 19, up to the app_id
QueueHost == "https://queue.{FAL_RUN_HOST}/"

\* c in text
contains(text, c) == \E i \in 1..Len(text) : text[i] = c

\* text.replace(old, new, 1)
replace_first(text, old, new) ==
    LET at == {i \in 1..Len(text) : text[i] = old}
    IN IF at = {} THEN text
       ELSE [text EXCEPT ![CHOOSE i \in at : \A j \in at : i <= j] = new]

\* _backwards_compatible_app_id, lines 24-29
backwards_compatible_app_id(app_id) ==
    IF ~contains(app_id, "/") THEN replace_first(app_id, "-", "/")
    ELSE app_id

\* text.split(sep)
RECURSIVE split(_, _)
split(text, sep) ==
    LET at == {i \in 1..Len(text) : text[i] = sep}
    IN IF at = {} THEN <<text>>
       ELSE LET i == CHOOSE i \in at : \A j \in at : i <= j
            IN <<SubSeq(text, 1, i - 1)>>
                 \o split(SubSeq(text, i + 1, Len(text)), sep)

\* sep.join(parts)
RECURSIVE join(_, _)
join(parts, sep) ==
    IF Len(parts) = 0 THEN <<>>
    ELSE IF Len(parts) = 1 THEN parts[1]
    ELSE parts[1] \o <<sep>> \o join(Tail(parts), sep)

\* seq[:n]
slice_to(seq, n) == SubSeq(seq, 1, IF Len(seq) < n THEN Len(seq) ELSE n)

\* faulty variant: the workflows test is left out, three parts are always kept
post_init_keeps_three(app_id) ==
    join(slice_to(split(backwards_compatible_app_id(app_id), "/"), 3), "/")

\* RequestHandle.__post_init__, lines 77-85: the app_id the handle keeps
post_init(app_id) ==
    LET id     == backwards_compatible_app_id(app_id)
        parts3 == slice_to(split(id, "/"), 3)
        parts  == IF parts3[1] # <<"workflows">> THEN slice_to(parts3, 2)
                  ELSE parts3
    IN join(parts, "/")

\* RequestHandle(app_id, request_id, _creds), lines 65-85
RequestHandle(app_id, request_id, creds) ==
    [state |-> "built", app_id |-> post_init(app_id),
     request_id |-> request_id, creds |-> creds]

\* _QUEUE_URL_FORMAT.format(app_id = app_id)
queue_url(app_id) == <<QueueHost>> \o app_id

\* faulty variant: the legacy dash form is not converted before the POST
submit_url_raw(app_id, path) ==
    LET url == queue_url(app_id)
    IN IF path # <<>>
       THEN url \o <<"/">> \o (IF path[1] = "/" THEN Tail(path) ELSE path)
       ELSE url

\* submit, lines 212-216: the URL of the POST
submit_url(app_id, path) ==
    LET url == queue_url(backwards_compatible_app_id(app_id))
    IN IF path # <<>>
       THEN url \o <<"/">> \o (IF path[1] = "/" THEN Tail(path) ELSE path)
       ELSE url

\* lines 90-93, 115-118, 142-145: the URLs of the handle's requests
status_url(h) == queue_url(h.app_id) \o <<"/requests/", h.request_id, "/status/">>
cancel_url(h) == queue_url(h.app_id) \o <<"/requests/", h.request_id, "/cancel">>
result_url(h) == queue_url(h.app_id) \o <<"/requests/", h.request_id, "/">>

Request(method, url, creds, code, n) ==
    [method |-> method, url |-> url, creds |-> creds, code |-> code, call |-> n]
Call(o, e) == [op |-> o, ok |-> e = "none", err |-> e]

\* the responses of the submit endpoint
SubmitResponses ==
    {[code |-> c, ctype |-> "application/json", body |-> b] :
        c \in {200, 401, 500}, b \in {[request_id |-> "1"], EmptyBody}}

\* the app_ids a caller may pass: every text of up to MaxIdLen characters,
\* every id of up to MaxParts components, and the long ids of the
\* documentation
IdChars    == {"workflows", "a", "/", "-"}
Components == {<<"workflows">>, <<"a">>, <<"b", "-", "b">>}
IdAbc123   == <<"abc", "-", "123">>
IdWorkflow == <<"workflows", "/", "a", "/", "b", "/", "c", "/", "d">>
IdABCD     == <<"a", "/", "b", "/", "c", "/", "d">>
AppIds ==
    TextsUpTo(IdChars, MaxIdLen)
    \cup {join(parts, "/") : parts \in TextsUpTo(Components, MaxParts) \ {<<>>}}
    \cup {IdAbc123, IdWorkflow, IdABCD}
Paths == {<<>>, <<"p">>, <<"/", "p">>}

TokensQueueWsKeysIdle == TokensQueueWsIdle /\ KeysIdle /\ ColabIdle /\ StreamIdle

\* RequestHandle(app_id, request_id) built by the caller itself
RequestHandle_init ==
    /\ ainput.state = "on"
    /\ ainput.entry = "direct"
    /\ handle.state = "none"
    /\ handle' = RequestHandle(ainput.app_id, "1", ainput.creds)
    /\ UNCHANGED <<ainput, http, acalls>>
    /\ TokensQueueWsKeysIdle

\* submit, lines 207-234: one POST; a handle is built from the response
submit ==
    /\ ainput.state = "on"
    /\ ainput.entry = "submit"
    /\ handle.state = "none"
    /\ acalls = <<>>
    /\ \E response \in SubmitResponses :
          LET app_id == backwards_compatible_app_id(ainput.app_id)
              creds  == ainput.creds
              data   == response.body
          IN /\ http' = Append(http, Request("POST", submit_url(ainput.app_id, ainput.path),
                                             creds, response.code, 1))
             /\ IF ~is_success(response.code)
                THEN /\ acalls' = Append(acalls, Call("submit", "HTTPStatusError"))
                     /\ UNCHANGED handle
                ELSE IF "request_id" \notin DOMAIN data
                THEN /\ acalls' = Append(acalls, Call("submit", "KeyError"))
                     /\ UNCHANGED handle
                ELSE /\ acalls' = Append(acalls, Call("submit", "none"))
                     /\ handle' = RequestHandle(app_id, data["request_id"], creds)
    /\ UNCHANGED ainput
    /\ TokensQueueWsKeysIdle

\* faulty variant: a 401 is answered by a second attempt
handle_status_retries ==
    /\ handle.state = "built"
    /\ Len(acalls) < ainput.calls
    /\ \E response \in StatusResponses :
          LET out == status(response)
              n   == Len(acalls) + 1
              req == Request("GET", status_url(handle), handle.creds, response.code, n)
          IN /\ http' = IF response.code = 401 THEN http \o <<req, req>>
                        ELSE Append(http, req)
             /\ acalls' = Append(acalls, Call("status",
                             IF IsStatus(out) THEN "none" ELSE out.err))
    /\ UNCHANGED <<ainput, handle>>
    /\ TokensQueueWsKeysIdle

\* RequestHandle.status, lines 87-111: one GET
handle_status ==
    /\ handle.state = "built"
    /\ Len(acalls) < ainput.calls
    /\ \E response \in StatusResponses :
          LET out == status(response)
              n   == Len(acalls) + 1
          IN /\ http' = Append(http, Request("GET", status_url(handle), handle.creds,
                                             response.code, n))
             /\ acalls' = Append(acalls, Call("status",
                             IF IsStatus(out) THEN "none" ELSE out.err))
    /\ UNCHANGED <<ainput, handle>>
    /\ TokensQueueWsKeysIdle

\* RequestHandle.cancel, lines 113-120: one PUT
handle_cancel ==
    /\ handle.state = "built"
    /\ Len(acalls) < ainput.calls
    /\ \E code \in StatusCodes :
          /\ http' = Append(http, Request("PUT", cancel_url(handle), handle.creds,
                                          code, Len(acalls) + 1))
          /\ acalls' = Append(acalls, Call("cancel",
                          IF is_success(code) THEN "none" ELSE "HTTPStatusError"))
    /\ UNCHANGED <<ainput, handle>>
    /\ TokensQueueWsKeysIdle

\* RequestHandle.fetch_result, lines 139-159: one GET
handle_fetch_result ==
    /\ handle.state = "built"
    /\ Len(acalls) < ainput.calls
    /\ \E pl \in Payloads : \E response \in ResultResponses(pl) :
          /\ http' = Append(http, Request("GET", result_url(handle), handle.creds,
                                          response.code, Len(acalls) + 1))
          /\ acalls' = Append(acalls, Call("fetch_result", fetch_result(response).err))
    /\ UNCHANGED <<ainput, handle>>
    /\ TokensQueueWsKeysIdle

AppStart ==
    /\ handle = [state |-> "none"]
    /\ http = <<>>
    /\ acalls = <<>>
    /\ TokensRest
    /\ QueueOff
    /\ WsRest
    /\ KeysRest
    /\ ColabRest
    /\ StreamRest

\* any app_id and path; submit followed by one request on the handle, or a
\* handle built by the caller and used for one request
InitApp ==
    /\ ainput \in [app_id : AppIds, path : Paths, creds : {"key"},
                   entry : {"submit", "direct"}, calls : {1, 2}, state : {"on"}]
    /\ ainput.calls = (IF ainput.entry = "submit" THEN 2 ELSE 1)
    /\ AppStart

\* a few app_ids, a handle used for up to MaxAppCalls requests
InitHttp ==
    /\ ainput \in [app_id : {<<"a", "/", "b">>, <<"a", "/", "b", "/", "c">>},
                   path : {<<>>}, creds : {"key", "bearer"},
                   entry : {"submit", "direct"}, calls : {MaxAppCalls},
                   state : {"on"}]
    /\ AppStart

NextApp ==
    \/ RequestHandle_init
    \/ submit
    \/ handle_status
    \/ handle_cancel
    \/ handle_fetch_result

SpecApp  == InitApp /\ [][NextApp]_vars
SpecHttp == InitHttp /\ [][NextApp]_vars

(***************************************************************************)
(* Claims about app_ids and the request URLs (checked under SpecApp).      *)
(***************************************************************************)
Slashes(text) == Cardinality({i \in 1..Len(text) : text[i] = "/"})
IsPrefix(r, text) == Len(r) <= Len(text) /\ SubSeq(text, 1, Len(r)) = r

\* the app_id with the legacy dash form turned into the slash form
Normalized(id) ==
    IF \E i \in 1..Len(id) : id[i] = "/" THEN id
    ELSE IF \E i \in 1..Len(id) : id[i] = "-"
    THEN LET d == CHOOSE i \in 1..Len(id) :
                     id[i] = "-" /\ \A j \in 1..(i - 1) : id[j] # "-"
         IN [i \in 1..Len(id) |-> IF i = d THEN "/" ELSE id[i]]
    ELSE id

\* the id is "workflows" or starts with "workflows/"
IsWorkflow(id) ==
    /\ Len(id) >= 1
    /\ id[1] = "workflows"
    /\ Len(id) >= 2 => id[2] = "/"

\* r is what is left of text when everything from its k-th "/" on is dropped
KeepsComponents(r, text, k) ==
    /\ IsPrefix(r, text)
    /\ Slashes(r) < k
    /\ r # text => (text[Len(r) + 1] = "/" /\ Slashes(r) = k - 1)

\* C12 as stated: "abc-123" becomes "abc/123", "workflows/a/b/c/d" becomes
\* "workflows/a/b/c" and "a/b/c/d" becomes "a/b" when a RequestHandle is built.
C12_AsStated ==
    handle.state = "built" =>
      /\ ainput.app_id = IdAbc123 => handle.app_id = <<"abc", "/", "123">>
      /\ ainput.app_id = IdWorkflow =>
            handle.app_id = <<"workflows", "/", "a", "/", "b", "/", "c">>
      /\ ainput.app_id = IdABCD => handle.app_id = <<"a", "/", "b">>

\* C12 (amended): "abc-123" becomes "abc/123", "workflows/a/b/c/d" becomes
\* "workflows/a/b" and "a/b/c/d" becomes "a/b"; in general an id without a
\* slash has its first dash turned into a slash, and everything from the
\* second slash on (the third for "workflows" ids) is dropped.
C12_Canonicalization ==
    handle.state = "built" =>
      /\ ainput.app_id = IdAbc123 => handle.app_id = <<"abc", "/", "123">>
      /\ ainput.app_id = IdWorkflow =>
            handle.app_id = <<"workflows", "/", "a", "/", "b">>
      /\ ainput.app_id = IdABCD => handle.app_id = <<"a", "/", "b">>
      /\ KeepsComponents(handle.app_id, Normalized(ainput.app_id),
                         IF IsWorkflow(Normalized(ainput.app_id)) THEN 3 ELSE 2)

\* a handle built for "workflows/a/b/c/d"
C12_Witness ==
    /\ handle.state = "built"
    /\ ainput.app_id = IdWorkflow
    /\ handle.app_id = <<"workflows", "/", "a", "/", "b">>

\* the sub-path as it follows the app_id in the URL
SubPath(path) ==
    IF path = <<>> THEN <<>>
    ELSE IF path[1] = "/" THEN path ELSE <<"/">> \o path

HandleRequests == {i \in 1..Len(http) : http[i].method # "POST"}
HostAnd(id) == <<QueueHost>> \o id

\* C13 as stated: submit POSTs to the queue endpoint of the canonical app_id,
\* the one the returned handle carries and uses for its status, cancel and
\* result requests, optionally followed by the sub-path, for every app_id.
C13_AsStated ==
    (ainput.state = "on" /\ ainput.entry = "submit" /\ Len(http) >= 1) =>
      /\ handle.state = "built" =>
            http[1].url = HostAnd(handle.app_id) \o SubPath(ainput.path)
      /\ \A i \in HandleRequests :
            IsPrefix(HostAnd(handle.app_id) \o <<"/requests/">>, http[i].url)

\* C13 (amended): submit POSTs to the queue endpoint of the app_id with only
\* the legacy dash form converted, extra path components kept, optionally
\* followed by the sub-path; the returned handle carries the canonical
\* app_id and uses it for its status, cancel and result requests; the two
\* are the same app_id exactly when the id has no extra path components.
C13_SubmitUrl ==
    (ainput.state = "on" /\ ainput.entry = "submit" /\ Len(http) >= 1) =>
      /\ http[1].method = "POST"
      /\ http[1].url = HostAnd(Normalized(ainput.app_id)) \o SubPath(ainput.path)
      /\ handle.state = "built" =>
            /\ KeepsComponents(handle.app_id, Normalized(ainput.app_id),
                  IF IsWorkflow(Normalized(ainput.app_id)) THEN 3 ELSE 2)
            /\ (http[1].url = HostAnd(handle.app_id) \o SubPath(ainput.path))
                  <=> handle.app_id = Normalized(ainput.app_id)
      /\ \A i \in HandleRequests :
            IsPrefix(HostAnd(handle.app_id) \o <<"/requests/">>, http[i].url)

\* submit of an id with an extra path component and a sub-path has returned
\* its handle, and the handle has been used for a request
C13_Witness ==
    /\ ainput.state = "on" /\ ainput.entry = "submit"
    /\ ainput.app_id = <<"a", "/", "a", "/", "a">>
    /\ ainput.path = <<"p">>
    /\ handle.state = "built"
    /\ handle.app_id = <<"a", "/", "a">>
    /\ Len(http) = 2
    /\ http[1].url = <<QueueHost, "a", "/", "a", "/", "a", "/", "p">>

(***************************************************************************)
(* Claims about the HTTP requests of a call (checked under SpecHttp).      *)
(***************************************************************************)
RequestsOf(n) == {i \in 1..Len(http) : http[i].call = n}
TransportErrors == {"HTTPStatusError", "HTTPStatusError: body"}
MethodOf(o) == CASE o = "submit" -> "POST"
                 [] o = "cancel" -> "PUT"
                 [] OTHER -> "GET"

\* every finished call has issued exactly one request, with the credentials
\* bound at the start, and no request belongs to no call
OneRequestPerCall ==
    /\ Len(http) = Len(acalls)
    /\ \A n \in 1..Len(acalls) :
          /\ Cardinality(RequestsOf(n)) = 1
          /\ \A i \in RequestsOf(n) :
                /\ http[i].creds = ainput.creds
                /\ http[i].method = MethodOf(acalls[n].op)

\* C19: submit, status, cancel and fetch_result each issue exactly one HTTP
\* request per call with the credentials already bound; on a non-success
\* response the call fails with a transport error, without a second request
\* and without a token refresh.
C19_OneRequestTransportError ==
    ainput.state = "on" =>
      /\ OneRequestPerCall
      /\ \A n \in 1..Len(acalls) : \A i \in RequestsOf(n) :
            ~is_success(http[i].code) =>
               (~acalls[n].ok /\ acalls[n].err \in TransportErrors)
      /\ store = NoPair /\ lock = NoProc

(***************************************************************************)
(* get_colab_token, fal/auth/__init__.py lines 14-54, called by several    *)
(* threads of one process.                                                 *)
(***************************************************************************)
\* text.strip(): leading and trailing blanks removed
RECURSIVE lstrip(_)
lstrip(text) ==
    IF text # <<>> /\ Head(text) = " " THEN lstrip(Tail(text)) ELSE text
RECURSIVE rstrip(_)
rstrip(text) ==
    IF text # <<>> /\ text[Len(text)] = " "
    THEN rstrip(SubSeq(text, 1, Len(text) - 1)) ELSE text
strip(text) == rstrip(lstrip(text))

\* what userdata.get("FAL_KEY") can do: return a text, return None, or raise
\* (no such secret, access not granted)
LookupOutcomes ==
    {[kind |-> "str", val |-> t] :
        t \in {<<"k">>, <<" ", "k", " ">>, <<"k", " ", "k">>, <<" ">>, <<>>}}
    \cup {[kind |-> "None", val |-> <<>>], [kind |-> "raise", val |-> <<>>]}
NoOutcome == [kind |-> "none", val |-> <<>>]

\* lines 47-51: the secret the state keeps after the lookup; None.strip()
\* is an AttributeError, caught like an exception of the lookup itself
secret_after(outcome) ==
    IF outcome.kind = "str" THEN Text(strip(outcome.val)) ELSE Absent

ColabCall(p, val) == [proc |-> p, val |-> val, queries |-> chist.queries]

ColabOthers == TokensQueueWsIdle /\ KeysIdle /\ AppIdle /\ StreamIdle

\* a thread calls get_colab_token()
get_colab_token(p) ==
    /\ cpc[p] \in {"idle", "done"}
    /\ chist.calls < MaxColabCalls
    /\ cpc' = [cpc EXCEPT ![p] = "c_is_colab"]
    /\ chist' = [chist EXCEPT !.calls = @ + 1]
    /\ UNCHANGED <<cenv, colab, cret>>
    /\ ColabOthers

\* lines 36-37: outside the notebook the answer is None
colab_is_google_colab(p) ==
    /\ cpc[p] = "c_is_colab"
    /\ IF ~cenv.in_colab
       THEN /\ cpc' = [cpc EXCEPT ![p] = "done"]
            /\ cret' = Append(cret, ColabCall(p, Absent))
       ELSE /\ cpc' = [cpc EXCEPT ![p] = "c_acquire"]
            /\ UNCHANGED cret
    /\ UNCHANGED <<cenv, colab, chist>>
    /\ ColabOthers

\* faulty variant: the with block is entered without waiting for the lock
colab_acquire_unlocked(p) ==
    /\ cpc[p] = "c_acquire"
    /\ colab' = [colab EXCEPT !.lock = p]
    /\ cpc' = [cpc EXCEPT ![p] = "c_checked"]
    /\ UNCHANGED <<cenv, cret, chist>>
    /\ ColabOthers

\* line 38: with _colab_state.lock
colab_acquire(p) ==
    /\ cpc[p] = "c_acquire"
    /\ colab.lock = NoProc
    /\ colab' = [colab EXCEPT !.lock = p]
    /\ cpc' = [cpc EXCEPT ![p] = "c_checked"]
    /\ UNCHANGED <<cenv, cret, chist>>
    /\ ColabOthers

\* lines 39-40: a checked state answers from the cache
colab_checked(p) ==
    /\ cpc[p] = "c_checked"
    /\ IF colab.is_checked
       THEN /\ cpc' = [cpc EXCEPT ![p] = "done"]
            /\ cret' = Append(cret, ColabCall(p, colab.secret))
            /\ colab' = [colab EXCEPT !.lock = NoProc]
       ELSE /\ cpc' = [cpc EXCEPT ![p] = "c_import"]
            /\ UNCHANGED <<cret, colab>>
    /\ UNCHANGED <<cenv, chist>>
    /\ ColabOthers

\* lines 42-45: without google.colab.userdata the answer is None and nothing
\* is remembered
colab_import(p) ==
    /\ cpc[p] = "c_import"
    /\ IF ~cenv.importable
       THEN /\ cpc' = [cpc EXCEPT ![p] = "done"]
            /\ cret' = Append(cret, ColabCall(p, Absent))
            /\ colab' = [colab EXCEPT !.lock = NoProc]
       ELSE /\ cpc' = [cpc EXCEPT ![p] = "c_get"]
            /\ UNCHANGED <<cret, colab>>
    /\ UNCHANGED <<cenv, chist>>
    /\ ColabOthers

\* line 48: userdata.get("FAL_KEY") is called; the lookup may take long
colab_get(p) ==
    /\ cpc[p] = "c_get"
    /\ cpc' = [cpc EXCEPT ![p] = "c_lookup"]
    /\ chist' = [chist EXCEPT !.queries = @ + 1]
    /\ UNCHANGED <<cenv, colab, cret>>
    /\ ColabOthers

\* lines 48-51: the lookup ends and the secret is stored
colab_secret(p) ==
    /\ cpc[p] = "c_lookup"
    /\ \E outcome \in LookupOutcomes :
          /\ colab' = [colab EXCEPT !.secret = secret_after(outcome)]
          /\ chist' = [chist EXCEPT !.outcome = outcome]
    /\ cpc' = [cpc EXCEPT ![p] = "c_mark"]
    /\ UNCHANGED <<cenv, cret>>
    /\ ColabOthers

\* lines 53-54: the state is marked checked and the secret returned
colab_mark(p) ==
    /\ cpc[p] = "c_mark"
    /\ colab' = [colab EXCEPT !.is_checked = TRUE, !.lock = NoProc]
    /\ cret' = Append(cret, ColabCall(p, colab.secret))
    /\ cpc' = [cpc EXCEPT ![p] = "done"]
    /\ UNCHANGED <<cenv, chist>>
    /\ ColabOthers

InitColab ==
    /\ cenv \in [in_colab : BOOLEAN, importable : BOOLEAN]
    /\ colab = [is_checked |-> FALSE, secret |-> Absent, lock |-> NoProc]
    /\ cpc = [p \in Procs |-> "idle"]
    /\ cret = <<>>
    /\ chist = [calls |-> 0, queries |-> 0, outcome |-> NoOutcome]
    /\ TokensRest
    /\ QueueOff
    /\ WsRest
    /\ KeysRest
    /\ AppRest
    /\ StreamRest

NextColab ==
    \/ \E p \in Procs : get_colab_token(p)
    \/ \E p \in Procs : colab_is_google_colab(p)
    \/ \E p \in Procs : colab_acquire(p)
    \/ \E p \in Procs : colab_checked(p)
    \/ \E p \in Procs : colab_import(p)
    \/ \E p \in Procs : colab_get(p)
    \/ \E p \in Procs : colab_secret(p)
    \/ \E p \in Procs : colab_mark(p)

SpecColab == InitColab /\ [][NextColab]_vars

(***************************************************************************)
(* Claims about the notebook secret (checked under SpecColab).             *)
(***************************************************************************)
\* the text without the blanks at its two ends
Trimmed(text) ==
    LET solid == {i \in 1..Len(text) : text[i] # " "}
    IN IF solid = {} THEN <<>>
       ELSE SubSeq(text, CHOOSE i \in solid : \A j \in solid : i <= j,
                         CHOOSE i \in solid : \A j \in solid : i >= j)

\* what the one lookup gave: its text, or nothing when the secret is absent
\* or the lookup failed
LookupResult ==
    IF chist.outcome.kind = "str" THEN Text(Trimmed(chist.outcome.val))
    ELSE Absent

InLookup == {p \in Procs : cpc[p] \in {"c_lookup", "c_mark"}}

\* C15: inside the notebook, for any number of concurrent and sequential
\* calls of get_colab_token in one process, the secret store is queried at
\* most once; the result of that query, an absent result or a failed lookup
\* included, is cached and returned by every later call; two callers never
\* run the lookup at the same time.
C15_OneLookup ==
    cenv.in_colab =>
      /\ chist.queries <= 1
      /\ Cardinality(InLookup) <= 1
      /\ \A i \in 1..Len(cret) :
            cret[i].queries >= 1 => cret[i].val = LookupResult
      /\ (colab.is_checked /\ colab.lock = NoProc) => colab.secret = LookupResult

\* three calls of two callers have returned, the first made the lookup,
\* which failed, and the later ones got the cached absence
C15_Witness ==
    /\ cenv.in_colab
    /\ Len(cret) = 3
    /\ chist.queries = 1
    /\ chist.outcome.kind = "raise"
    /\ cret[2].proc # cret[1].proc
    /\ \A i \in 1..3 : cret[i].val = Absent

(***************************************************************************)
(* The token lock on the exit paths of get_access_token (checked under     *)
(* SpecTokens).                                                            *)
(***************************************************************************)
\* the positions inside a with local.lock_token() block
InsideWith == {"f_load", "f_verify", "f_refresh", "f_save", "f_delete",
               "f_return", "li_save", "li_release", "lo_delete", "lo_release"}

\* how a finished get_access_token call left: "valid" (the stored token was
\* returned), "refreshed", "unauthenticated" or "failed" (exchange refused)
ExitPath(p) ==
    IF ret[p].ok THEN (IF call[p].exch = 0 THEN "valid" ELSE "refreshed")
    ELSE IF ret[p].err = "Unauthenticated" THEN "unauthenticated"
    ELSE "failed"

\* C18: the token lock is released on every exit path of get_access_token:
\* after the return of a still-valid token, after a successful refresh,
\* after Unauthenticated and after a failed exchange with its delete the
\* caller does not hold the lock; the lock is only ever held by a caller
\* that is inside its with block, so it is free for a later login, logout or
\* get_access_token.
C18_LockReleased ==
    /\ \A p \in Procs :
          Finished(p, "get") =>
             /\ ExitPath(p) \in {"valid", "refreshed", "unauthenticated", "failed"}
             /\ lock # p
             /\ ExitPath(p) = "failed" => call[p].del = 1
    /\ lock # NoProc => (lock \in Procs /\ pc[lock] \in InsideWith)
    /\ (\A p \in Procs : pc[p] \notin InsideWith) => lock = NoProc

\* a get_access_token call has left by the failed exchange, and another
\* caller has taken the lock since
C18_Witness ==
    \E p \in Procs : \E q \in Procs \ {p} :
        /\ Finished(p, "get")
        /\ ExitPath(p) = "failed"
        /\ call[p].del = 1
        /\ lock = q
        /\ pc[q] \in InsideWith

(***************************************************************************)
(* _WSConnection.stream, fal/apps.py lines 387-396, over _recv_response,   *)
(* lines 358-368, next to recv() on the same connection.                   *)
(*                                                                         *)
(* stream() is a generator: it runs when its caller asks for the next      *)
(* item and is suspended at the yield of line 366, inside the with block   *)
(* of _recv, so the yielded frame is still in the buffer while the caller  *)
(* holds it and is consumed when the caller comes back.                    *)
(***************************************************************************)
can_peek_stream == wbuf # <<>> \/ Len(wsock) < MaxStreamFrames
Yielded(res) == [call |-> Len(wret) + 1, at |-> Len(after_read(res)),
                 frame |-> res, read |-> Len(after_read(res))]

StreamOthers == TokensIdle /\ QueueIdle /\ KeysIdle /\ AppIdle /\ ColabIdle

\* stream, lines 388-389, at the caller's first next(): start =
\* self._recv_meta("start"); a frame that is not a start message stays in
\* the buffer and the generator raises
stream_start ==
    /\ wpc = "idle"
    /\ Len(wret) < MaxRecvs
    /\ can_peek_stream
    /\ \E res \in peek :
          LET e    == recv_meta_error(res, "start")
              from == Len(after_read(res))
          IN /\ wsock' = after_read(res)
             /\ IF e # "none"
                THEN /\ wbuf' = <<res>>
                     /\ wret' = Append(wret, WsErr(e, from, from))
                     /\ wstreams' = wstreams \cup {Len(wret) + 1}
                     /\ wpc' = "idle"
                     /\ UNCHANGED wloc
                ELSE /\ wbuf' = <<>>
                     /\ wloc' = [request_id |-> json_loads(res.str).request_id,
                                 response |-> <<>>, from |-> from]
                     /\ wpc' = "s_parts"
                     /\ UNCHANGED <<wret, wstreams>>
    /\ UNCHANGED wyield
    /\ StreamOthers

\* faulty variant: the frame is consumed before it is handed to the caller,
\* and a control message is consumed by the loop
stream_part_consumes ==
    /\ wpc = "s_parts"
    /\ can_peek_stream
    /\ \E res \in peek :
          /\ wsock' = after_read(res)
          /\ wbuf' = <<>>
          /\ IF is_meta(res)
             THEN /\ wpc' = "s_end"
                  /\ UNCHANGED wyield
             ELSE /\ wyield' = Append(wyield, Yielded(res))
                  /\ wpc' = "s_yielded"
    /\ UNCHANGED <<wloc, wret, wstreams>>
    /\ StreamOthers

\* stream, line 391 over _recv_response, lines 359-368: one frame; a
\* control message is left in the buffer and ends the loop, anything else
\* is yielded while it is still in the buffer
stream_part ==
    /\ wpc = "s_parts"
    /\ can_peek_stream
    /\ \E res \in peek :
          /\ wsock' = after_read(res)
          /\ wbuf' = <<res>>
          /\ IF is_meta(res)
             THEN /\ wpc' = "s_end"
                  /\ UNCHANGED wyield
             ELSE /\ wyield' = Append(wyield, Yielded(res))
                  /\ wpc' = "s_yielded"
    /\ UNCHANGED <<wloc, wret, wstreams>>
    /\ StreamOthers

\* the caller asks for the next item: the generator resumes after the
\* yield, leaves the with block of _recv (line 331: self._consume()) and
\* loops
stream_next ==
    /\ wpc = "s_yielded"
    /\ wbuf' = <<>>
    /\ wpc' = "s_parts"
    /\ UNCHANGED <<wsock, wloc, wret, wyield, wstreams>>
    /\ StreamOthers

\* the caller drops the generator at a yield: GeneratorExit is raised at
\* line 366 and passes through _recv, which does not consume
stream_abandon ==
    /\ wpc = "s_yielded"
    /\ wret' = Append(wret, WsErr("GeneratorExit", wloc.from, Len(wsock)))
    /\ wstreams' = wstreams \cup {Len(wret) + 1}
    /\ wpc' = "idle"
    /\ wloc' = WsLocals
    /\ UNCHANGED <<wbuf, wsock, wyield>>
    /\ StreamOthers

\* faulty variant: the end message's request_id is not compared with the start's
stream_end_unmatched ==
    /\ wpc = "s_end"
    /\ can_peek_stream
    /\ \E res \in peek :
          LET e == recv_meta_error(res, "end")
          IN /\ wsock' = after_read(res)
             /\ IF e # "none"
                THEN /\ wbuf' = <<res>>
                     /\ wret' = Append(wret, WsErr(e, wloc.from, Len(wsock')))
                ELSE /\ wbuf' = <<>>
                     /\ wret' = Append(wret, WsOk(<<>>, wloc.from))
    /\ wstreams' = wstreams \cup {Len(wret) + 1}
    /\ wpc' = "idle"
    /\ wloc' = WsLocals
    /\ UNCHANGED wyield
    /\ StreamOthers

\* stream, lines 393-396: end = self._recv_meta("end"), then the request_id
\* check; the generator is exhausted
stream_end ==
    /\ wpc = "s_end"
    /\ can_peek_stream
    /\ \E res \in peek :
          LET e == recv_meta_error(res, "end")
          IN /\ wsock' = after_read(res)
             /\ IF e # "none"
                THEN /\ wbuf' = <<res>>
                     /\ wret' = Append(wret, WsErr(e, wloc.from, Len(wsock')))
                ELSE /\ wbuf' = <<>>
                     /\ wret' = Append(wret,
                           IF json_loads(res.str).request_id # wloc.request_id
                           THEN WsErr("Mismatched request_id in end message",
                                      wloc.from, Len(wsock'))
                           ELSE WsOk(<<>>, wloc.from))
    /\ wstreams' = wstreams \cup {Len(wret) + 1}
    /\ wpc' = "idle"
    /\ wloc' = WsLocals
    /\ UNCHANGED wyield
    /\ StreamOthers

\* recv() on a connection that is also streamed from
StreamBudget == Len(wsock') <= MaxStreamFrames
duplex_recv_start == recv_start /\ StreamBudget
duplex_recv_part  == recv_part /\ StreamBudget
duplex_recv_end   == recv_end /\ StreamBudget

InitDuplex ==
    /\ wbuf = <<>>
    /\ wsock = <<>>
    /\ wpc = "idle"
    /\ wloc = WsLocals
    /\ wret = <<>>
    /\ TokensRest
    /\ QueueOff
    /\ ElsewhereRest

NextDuplex ==
    \/ duplex_recv_start
    \/ duplex_recv_part
    \/ duplex_recv_end
    \/ stream_start
    \/ stream_part
    \/ stream_next
    \/ stream_abandon
    \/ stream_end

SpecDuplex == InitDuplex /\ [][NextDuplex]_vars

(***************************************************************************)
(* Claims about stream() and the lookahead buffer (checked under           *)
(* SpecDuplex).                                                            *)
(***************************************************************************)
ExpectedStart == "Expected a start message"
ExpectedEnd   == "Expected a end message"
Mismatched    == "Mismatched request_id in end message"

\* the places in wyield of the frames stream call n yielded
YieldsOf(n) == {i \in 1..Len(wyield) : wyield[i].call = n}

\* the frames call n yielded are the frames at the places from + 1,
\* from + 2, ... of the socket, none of them a control frame, each yielded
\* when no later frame had been read
YieldsInOrder(n, from) ==
    \A i \in YieldsOf(n) :
        LET k == Cardinality({j \in YieldsOf(n) : j <= i})
        IN /\ wyield[i].at = from + k
           /\ wyield[i].frame = wsock[from + k]
           /\ wyield[i].frame \notin ControlFrames
           /\ wyield[i].read = wyield[i].at

SameRequest(start, end) ==
    \E id \in RequestIds : start = Ctl("start", id) /\ end = Ctl("end", id)

\* C14: stream() validates the Start frame first, then yields every
\* intervening non-control frame in arrival order, each before the next
\* frame is read, and only after the last data frame was yielded reads and
\* validates the End frame; a terminator of the wrong type or an End with
\* another request_id is an error raised after all data frames were
\* yielded; a well-formed response ends the sequence normally with the End
\* frame consumed.
C14_StreamOrder ==
    /\ \A n \in wstreams :
          LET r == wret[n]
              yielded == Cardinality(YieldsOf(n))
          IN /\ YieldsInOrder(n, r.from)
             /\ IF r.err = ExpectedStart
                THEN /\ yielded = 0
                     /\ r.to = r.from
                     /\ wsock[r.from] \notin StartFrames
                ELSE /\ wsock[r.from] \in StartFrames
                     /\ \A i \in (r.from + 1)..(r.from + yielded) :
                           wsock[i] \notin ControlFrames
                     /\ IF r.err = "GeneratorExit"
                        THEN yielded = r.to - r.from /\ yielded >= 1
                        ELSE /\ yielded = r.to - r.from - 1
                             /\ wsock[r.to] \in ControlFrames
                             /\ r.ok <=> SameRequest(wsock[r.from], wsock[r.to])
                             /\ wsock[r.to] \notin EndFrames <=> r.err = ExpectedEnd
                             /\ (wsock[r.to] \in EndFrames
                                 /\ ~SameRequest(wsock[r.from], wsock[r.to]))
                                   <=> r.err = Mismatched
             /\ (r.ok /\ n = Len(wret) /\ wpc = "idle") => wbuf = <<>>
    /\ wpc \in {"s_parts", "s_yielded", "s_end"} =>
          /\ YieldsInOrder(Len(wret) + 1, wloc.from)
          /\ wsock[wloc.from] \in StartFrames
          /\ Cardinality(YieldsOf(Len(wret) + 1))
               = Len(wsock) - wloc.from - (IF wpc = "s_end" THEN 1 ELSE 0)
          /\ wpc = "s_end" => wbuf = <<wsock[Len(wsock)]>>

\* a stream() call has yielded two data frames and then failed on an End
\* frame with another request_id
C14_Witness ==
    /\ 1 \in wstreams
    /\ wret[1].err = Mismatched
    /\ Cardinality(YieldsOf(1)) = 2
    /\ wsock[1] = Ctl("start", 7)
    /\ wsock[4] = Ctl("end", 8)

\* frames taken out of the buffer so far
Consumed == Len(wsock) - Len(wbuf)

\* the bytes a frame adds to the response of recv()
FrameBytes(f) == IF "bytes" \in DOMAIN f THEN f.bytes ELSE encode(f.str)

\* the step consumes frame f as a control frame that was checked, or after
\* it was added to the response of recv() or yielded by stream()
ConsumedChecked(f) ==
    \/ wpc \in {"idle"} /\ f \in StartFrames
    \/ wpc \in {"end", "s_end"} /\ f \in EndFrames
    \/ /\ wpc = "parts"
       /\ f \notin ControlFrames
       /\ wloc'.response = wloc.response \o FrameBytes(f)
    \/ /\ wpc = "s_yielded"
       /\ f \notin ControlFrames
       /\ wyield # <<>>
       /\ wyield[Len(wyield)].frame = f
       /\ wyield[Len(wyield)].at = Consumed + 1

ContentIsControl(f) == \E c \in ControlFrames : FrameBytes(f) = encode(c.str)

\* the frames that recv() took as payload or stream() yielded: their places
\* in the socket history
RECURSIVE BytesOf(_, _)
BytesOf(i, j) == IF i > j THEN <<>> ELSE FrameBytes(wsock[i]) \o BytesOf(i + 1, j)

PayloadPlaces ==
    UNION {IF n \in wstreams THEN {wyield[i].at : i \in YieldsOf(n)}
           ELSE IF wret[n].err = ExpectedStart THEN {}
           ELSE (wret[n].from + 1)..(wret[n].to - 1) : n \in 1..Len(wret)}
    \cup {wyield[i].at : i \in YieldsOf(Len(wret) + 1)}
    \cup (IF wpc \in {"parts", "end"}
          THEN (wloc.from + 1)..(Len(wsock) - (IF wpc = "end" THEN 1 ELSE 0))
          ELSE {})

\* C17 as stated: any frame whose content parses as JSON with both a type and
\* a request_id field is treated as a control frame and never returned or
\* yielded as payload.
C17_AsStated ==
    \A i \in PayloadPlaces : ~ContentIsControl(wsock[i])

\* a call whose Start was accepted took every frame up to the first text
\* control frame as payload, and that control frame stopped it
PayloadUntilControl(from, to, stopped) ==
    /\ wsock[from] \in StartFrames
    /\ \A i \in (from + 1)..(to - (IF stopped THEN 1 ELSE 0)) :
          wsock[i] \notin ControlFrames /\ i \in PayloadPlaces
    /\ stopped => wsock[to] \in ControlFrames

\* C17 (amended): a text frame whose content parses as a JSON object with
\* both a type and a request_id field is treated as a control frame by
\* recv() and stream() and never taken as payload; every other frame, a
\* binary frame whatever its content included, is never treated as a
\* control frame and, between Start and the terminating control frame, is
\* always taken as payload (added to recv()'s response, yielded by stream()).
C17_ControlFrames ==
    /\ \A i \in PayloadPlaces : wsock[i] \notin ControlFrames
    /\ \A n \in 1..Len(wret) :
          LET r == wret[n]
          IN IF r.err = ExpectedStart THEN wsock[r.from] \notin StartFrames
             ELSE /\ PayloadUntilControl(r.from, r.to, r.err # "GeneratorExit")
                  /\ (r.ok /\ n \notin wstreams) =>
                        r.val = BytesOf(r.from + 1, r.to - 1)
    /\ wpc \in {"parts", "end", "s_parts", "s_yielded", "s_end"} =>
          PayloadUntilControl(wloc.from, Len(wsock), wpc \in {"end", "s_end"})
    /\ wpc \in {"parts", "end"} =>
          wloc.response = BytesOf(wloc.from + 1,
                                  Len(wsock) - (IF wpc = "end" THEN 1 ELSE 0))

\* a recv() has returned a response that holds a binary frame spelling a
\* control message and a text frame with a type but no request_id
C17_Witness ==
    /\ Len(wret) >= 1
    /\ 1 \notin wstreams
    /\ wret[1].ok
    /\ wret[1].to = 4
    /\ \E i \in 2..3 : "bytes" \in DOMAIN wsock[i] /\ ContentIsControl(wsock[i])
    /\ \E i \in 2..3 : wsock[i] = [str |-> "{\"type\":\"start\"}"]

\* C20: when recv() or stream() fails because the frame where a Start or
\* End is expected is not a control frame of the expected type, the frame
\* stays in the lookahead buffer, so the next recv()/stream() examines the
\* same frame again without reading the socket; when the failure is an End
\* with a mismatched request_id, the End has been consumed and the buffer
\* is empty, as after a successful recv().
C20_FailedFrameStays ==
    \A n \in 1..Len(wret) :
        LET r == wret[n]
        IN /\ r.err \in {ExpectedStart, ExpectedEnd} =>
                 /\ (n = Len(wret) /\ wpc = "idle") =>
                       (wbuf = <<wsock[r.to]>> /\ Len(wsock) = r.to)
                 /\ (n = Len(wret) /\ wpc # "idle") => wloc.from = r.to
                 /\ n < Len(wret) => wret[n + 1].from = r.to
           /\ (r.err = Mismatched \/ r.ok) =>
                 /\ (n = Len(wret) /\ wpc = "idle") =>
                       (wbuf = <<>> /\ Len(wsock) = r.to)
                 /\ (n = Len(wret) /\ wpc # "idle") => wloc.from = r.to + 1
                 /\ n < Len(wret) => wret[n + 1].from = r.to + 1

\* a recv() failed on a second Start where the End was expected, the next
\* call took that Start as its own and failed on a mismatched End, and the
\* call after that read a new frame
C20_Witness ==
    /\ Len(wret) = 3
    /\ wret[1].err = ExpectedEnd
    /\ wret[2].from = wret[1].to
    /\ wret[2].err = Mismatched
    /\ wret[3].from = wret[2].to + 1

(***************************************************************************)
(* UserAccess, fal/auth/__init__.py lines 143-176.                         *)
(*                                                                         *)
(* One instance (the one AddUserIdProcessor keeps, fal/logging/user.py     *)
(* line 10) is read again and again by its owner, caller Reader, one read  *)
(* at a time.  Caller Beside is another process: it calls                  *)
(* _fetch_access_token, login and logout against the same token file, and  *)
(* the stored access token can expire, between and during the reads.       *)
(***************************************************************************)
Reader == 1
Beside == 2

\* the two properties that hand out the token
TokenProps == {"access_token", "bearer_token"}

\* line 174: "Bearer " + self.access_token
bearer_token(access_token) == [prefix |-> "Bearer ", token |-> access_token]

\* what a read of property via returns when access_token returns token
read_value(via, token) ==
    IF via = "bearer_token" THEN bearer_token(token)
    ELSE [prefix |-> "", token |-> token]

NoValue == [prefix |-> "", token |-> NoToken]

Read(via, ok, val, err, fetched) ==
    [via |-> via, ok |-> ok, val |-> val, err |-> err, fetched |-> fetched]

AccessOthers ==
    QueueIdle /\ WsIdle /\ KeysIdle /\ AppIdle /\ ColabIdle /\ StreamIdle

\* the owner is between reads and may make another one
CanRead ==
    /\ upc = "idle"
    /\ pc[Reader] \in {"idle", "done"}
    /\ Len(uhist.reads) < MaxReads

\* lines 156-161: a stored exception is raised again
access_token_raise(via) ==
    /\ CanRead
    /\ user_access.exc # "none"
    /\ uhist' = [uhist EXCEPT !.reads =
                    Append(@, Read(via, FALSE, NoValue, user_access.exc, FALSE))]
    /\ UNCHANGED <<user_access, upc>>
    /\ UNCHANGED tokenVars
    /\ AccessOthers

\* lines 163 and 170: a stored token is returned as it is
access_token_cached(via) ==
    /\ CanRead
    /\ user_access.exc = "none"
    /\ user_access.access_token # NoToken
    /\ uhist' = [uhist EXCEPT !.reads =
                    Append(@, Read(via, TRUE,
                                   read_value(via, user_access.access_token),
                                   "none", FALSE))]
    /\ UNCHANGED <<user_access, upc>>
    /\ UNCHANGED tokenVars
    /\ AccessOthers

\* lines 163-165: nothing is stored, _fetch_access_token is called
access_token_fetch(via) ==
    /\ CanRead
    /\ user_access.exc = "none"
    /\ user_access.access_token = NoToken
    /\ op' = [op EXCEPT ![Reader] = "get"]
    /\ pc' = [pc EXCEPT ![Reader] = FirstStep("get")]
    /\ loc' = [loc EXCEPT ![Reader] = NoLocals]
    /\ ret' = [ret EXCEPT ![Reader] = Pending]
    /\ call' = [call EXCEPT ![Reader] = NoCall]
    /\ hist' = [hist EXCEPT !.calls = @ + 1]
    /\ upc' = via
    /\ uhist' = [uhist EXCEPT !.fetches = @ + 1]
    /\ UNCHANGED <<store, lock, idp, expired, user_access>>
    /\ AccessOthers

\* faulty variant: a failure of _fetch_access_token is raised but not kept
access_token_store_forgets_exc ==
    /\ upc # "idle"
    /\ pc[Reader] = "done"
    /\ user_access' = IF ret[Reader].ok
                      THEN [user_access EXCEPT !.access_token = ret[Reader].val]
                      ELSE user_access
    /\ uhist' = [uhist EXCEPT !.reads =
                    Append(@, IF ret[Reader].ok
                              THEN Read(upc, TRUE, read_value(upc, ret[Reader].val),
                                        "none", TRUE)
                              ELSE Read(upc, FALSE, NoValue, ret[Reader].err, TRUE))]
    /\ upc' = "idle"
    /\ UNCHANGED tokenVars
    /\ AccessOthers

\* lines 165-170: the token _fetch_access_token returned is stored and
\* returned; the exception it raised is stored and raised
access_token_store ==
    /\ upc # "idle"
    /\ pc[Reader] = "done"
    /\ user_access' = IF ret[Reader].ok
                      THEN [user_access EXCEPT !.access_token = ret[Reader].val]
                      ELSE [user_access EXCEPT !.exc = ret[Reader].err]
    /\ uhist' = [uhist EXCEPT !.reads =
                    Append(@, IF ret[Reader].ok
                              THEN Read(upc, TRUE, read_value(upc, ret[Reader].val),
                                        "none", TRUE)
                              ELSE Read(upc, FALSE, NoValue, ret[Reader].err, TRUE))]
    /\ upc' = "idle"
    /\ UNCHANGED tokenVars
    /\ AccessOthers

NextAccess ==
    \/ \E via \in TokenProps : access_token_raise(via)
    \/ \E via \in TokenProps : access_token_cached(via)
    \/ \E via \in TokenProps : access_token_fetch(via)
    \/ access_token_store
    \/ \E o \in AuthOps : StartCall(Beside, o)
    \/ \E p \in Procs : LockBlocked(p)
    \/ Expire
    \/ \E p \in Procs : fetch_acquire(p)
    \/ \E p \in Procs : fetch_load(p)
    \/ \E p \in Procs : fetch_verify(p)
    \/ \E p \in Procs : fetch_refresh(p)
    \/ \E p \in Procs : fetch_save(p)
    \/ \E p \in Procs : fetch_delete(p)
    \/ \E p \in Procs : fetch_return(p)
    \/ \E p \in Procs : login_auth0(p)
    \/ \E p \in Procs : login_acquire(p)
    \/ \E p \in Procs : login_save(p)
    \/ \E p \in Procs : login_release(p)
    \/ \E p \in Procs : logout_load(p)
    \/ \E p \in Procs : logout_revoke(p)
    \/ \E p \in Procs : logout_acquire(p)
    \/ \E p \in Procs : logout_delete(p)
    \/ \E p \in Procs : logout_release(p)

\* a run starts as the token store's runs do, with a new instance (lines
\* 145-148: every field None)
SpecAccess == InitTokens /\ [][NextAccess]_vars

(***************************************************************************)
(* Claims about UserAccess (checked under SpecAccess).                     *)
(***************************************************************************)
FirstRead == uhist.reads[1]

\* the i-th finished read gave what the first one gave, through its own
\* property, and did not call _fetch_access_token
SameOutcome(i) ==
    LET r == uhist.reads[i]
    IN /\ r.ok = FirstRead.ok
       /\ r.err = FirstRead.err
       /\ r.val = IF r.ok THEN read_value(r.via, FirstRead.val.token)
                  ELSE NoValue
       /\ r.fetched = (i = 1)

\* C21: one UserAccess instance, read one read at a time, calls
\* _fetch_access_token at most once, in its first read, whatever happens to
\* the token file meanwhile; every later read of access_token or
\* bearer_token gives the first read's outcome without calling it again:
\* the same token after a success (expired or not, still stored or not),
\* the same exception after a failure.
C21_StickyOutcome ==
    /\ uhist.fetches <= 1
    /\ uhist.fetches = 0 => uhist.reads = <<>>
    /\ \A i \in 1..Len(uhist.reads) : SameOutcome(i)
    /\ uhist.reads # <<>> =>
          /\ user_access.access_token = FirstRead.val.token
          /\ user_access.exc = FirstRead.err
          /\ FirstRead.ok = (FirstRead.val.token # NoToken)
          /\ FirstRead.ok = (FirstRead.err = "none")

\* the first read's exchange failed and deleted the stored pair, so that a
\* new call of _fetch_access_token would raise Unauthenticated; the later
\* reads, one through each property, raised the exchange's failure
C21_Witness ==
    /\ Len(uhist.reads) = MaxReads
    /\ uhist.fetches = 1
    /\ FirstRead.fetched
    /\ FirstRead.err = "NetworkError"
    /\ call[Reader].del = 1
    /\ store = NoPair
    /\ \E i, j \in 2..MaxReads :
          /\ uhist.reads[i].via = "access_token"
          /\ uhist.reads[j].via = "bearer_token"
          /\ uhist.reads[i].err = "NetworkError"
          /\ uhist.reads[j].err = "NetworkError"
          /\ ~uhist.reads[i].fetched
          /\ ~uhist.reads[j].fetched

\* the first read got a token that has expired since and that a logout
\* has removed from the file; a later read still returned it
StickySuccess ==
    /\ Len(uhist.reads) >= 2
    /\ FirstRead.ok
    /\ FirstRead.val.token \in expired
    /\ store = NoPair
    /\ hist.logout
    /\ uhist.reads[Len(uhist.reads)].val = bearer_token(FirstRead.val.token)
====
